---- MODULE Spec2Model ----
(***************************************************************************)
(* Chat-state classification and response-urgency engine of the periskope  *)
(* analytics dashboard: the chat-analytics route handlers (several         *)
(* variants of app/api/chat-analytics/route.ts live in the repository).    *)
(*                                                                         *)
(* Time: every timestamp is a number of SECONDS since the epoch (the       *)
(* source holds ISO strings and compares their getTime() milliseconds; one *)
(* unit here is 1000 ms there).  ageInHours and the other values the       *)
(* source rounds with Math.round(x * 100) / 100 are kept as integers in    *)
(* hundredths of an hour.                                                  *)
(* A falsy timestamp field whose Date is the epoch (null, 0) is Absent; a   *)
(* timestamp field that is undefined or "", whose new Date(..).getTime()   *)
(* is NaN, is held as NaN.  A phone, agent or link is a string, held as   *)
(* the sequence of its UTF-16 code units; a falsy one is the empty         *)
(* sequence.                                                               *)
(***************************************************************************)
EXTENDS Integers, Sequences, FiniteSets, TLC

VARIABLES
    route,      \* which variant of the chat-analytics handler is deployed
    now,        \* new Date().getTime() of the request
    pc,         \* position of the GET handler
    chats,      \* the list the fetch returned (agentChats / allChats)
    openChats,  \* the list handed to the aggregator
    metrics,    \* the metrics object of the response
    upstream,   \* the chat records the Periskope API holds, in page order
    offset,     \* offset of the next getChats call
    pageCount,  \* pages asked for so far
    totalChatsChecked,  \* records received so far
    startDate,  \* messages route: the start of the requested range, an instant
    endDate,    \* messages route: the end of the requested range
    idx,        \* messages route: index of the next interval (i, idx)
    calls,      \* messages route: where each caller of a window fetch is
    baseCursor, \* messages route: baseOptions.cursor
    windows,    \* messages route: what became of every interval
    results,    \* messages route: the messages collected for the response
    messages,   \* reply statistics: the messages given to the function
    replyDelay  \* reply statistics: what the function returned

\* the state of the paginated fetch
fetchVars == <<upstream, offset, pageCount, totalChatsChecked>>

\* the state of the messages route
messageVars == <<startDate, endDate, idx, calls, baseCursor, windows, results>>

\* the state of the reply statistics
replyVars == <<messages, replyDelay>>

vars == <<route, now, pc, chats, openChats, metrics, upstream, offset, pageCount,
          totalChatsChecked, startDate, endDate, idx, calls, baseCursor, windows,
          results,
          messages, replyDelay>>

----------------------------------------------------------------------------
\* Bounds of the model

\* the request time, in seconds
Now == 40000000
\* longest chat list of the specifications that draw from a rich chat domain
MaxChats == 2
\* longest chat list of the specification of the activity-window filter
MaxListed == 6
\* page size of getChats in the model (limit, 1000 in the source)
limit == 2
\* most pages one fetch asks for in the model (the safety limits of the source:
\* 15 pages in fetchAllChats, 20 in fetchAllChatsWithDeduplication,
\* offset < 10000 in fetchChatsByOrgPhone)
MaxPages == 2
\* most records the upstream holds
MaxUpstream == 4

----------------------------------------------------------------------------
\* Program constants

\* 1000 * 60 * 60 ms, in seconds
Hour == 3600
\* the 24 hour overdue threshold of the group-chat variants
OverdueHours == 24

Absent == 0

\* Number.NaN, and a timestamp field whose getTime() is NaN (undefined, ""):
\* an integer that no time and no difference of times of the model reaches
NaN == -2000000000

\* A string of the program is the sequence of its UTF-16 code units, so that
\* it can hold every character. The code unit of a printable ASCII character,
\* "5".charCodeAt(0): these run from the blank (code unit 32) to the
\* underscore (95) and from a (97) to the tilde (126)
codeUnit(c) ==
    LET printableTo95 ==
            " !\"#$%&'()*+,-./0123456789:;<=>?@ABCDEFGHIJKLMNOPQRSTUVWXYZ[\\]^_"
        printableFrom97 == "abcdefghijklmnopqrstuvwxyz{|}~"
    IN  IF \E i \in 1..Len(printableTo95) : SubSeq(printableTo95, i, i) = c
        THEN 31 + CHOOSE i \in 1..Len(printableTo95) : SubSeq(printableTo95, i, i) = c
        ELSE 96 + CHOOSE i \in 1..Len(printableFrom97) : SubSeq(printableFrom97, i, i) = c

\* the string of the program that a text of these characters denotes
Str(text) == [i \in 1..Len(text) |-> codeUnit(SubSeq(text, i, i))]

targetAgent == Str("918527014950@c.us")

supportTeamPhones == {Str("918527014950@c.us"), Str("918527439222@c.us")}

customerPhone == Str("919000000001@c.us")

----------------------------------------------------------------------------
\* Values

\* JavaScript truthiness of a timestamp field / of a string field
Truthy(x) == x # Absent /\ x # NaN

\* a - b, a > b, a >= b and a <= b of JavaScript numbers: NaN makes a
\* difference NaN and a comparison false
Minus(a, b) == IF a = NaN \/ b = NaN THEN NaN ELSE a - b

Greater(a, b) == a # NaN /\ b # NaN /\ a > b

AtLeast(a, b) == a # NaN /\ b # NaN /\ a >= b

AtMost(a, b) == a # NaN /\ b # NaN /\ a <= b

TruthyStr(s) == s # <<>>

NoMessage ==
    [exists |-> FALSE, timestamp |-> Absent, from_me |-> FALSE, sender_phone |-> <<>>]

Message(ts, fromMe, sender) ==
    [exists |-> TRUE, timestamp |-> ts, from_me |-> fromMe, sender_phone |-> sender]

\* chat.latest_message?.timestamp
HasMessageTimestamp(chat) ==
    chat.latest_message.exists /\ Truthy(chat.latest_message.timestamp)

Chat(id, type, exited, closed, created, updated, msg, members, org, assigned, link) ==
    [chat_id |-> id, chat_type |-> type, is_exited |-> exited, closed_at |-> closed,
     created_at |-> created, updated_at |-> updated, latest_message |-> msg,
     member_count |-> members, org_phone |-> org, chat_org_phones |-> <<>>,
     assigned_to |-> assigned, invite_link |-> link]

\* Math.round(n / d) for d > 0, where the double n / d is exact or far from
\* a half: floor(n / d + 1/2)
RoundDiv(n, d) == (2 * n + d) \div (2 * d)

\* floor(log2(q)) for q >= 1
RECURSIVE floorLog2(_)
floorLog2(q) == IF q < 2 THEN 0 ELSE 1 + floorLog2(q \div 2)

\* the least j >= 1 with num * 2^j >= den, for 0 < num < den
RECURSIVE shiftsToReach(_, _)
shiftsToReach(num, den) == IF 2 * num >= den THEN 1 ELSE 1 + shiftsToReach(2 * num, den)

\* the binary exponent of the double nearest to num / den: floor(log2(num / den))
exponentOf(num, den) ==
    IF num >= den THEN floorLog2(num \div den) ELSE 0 - shiftsToReach(num, den)

\* 2^p modulo 200
RECURSIVE powerMod200(_)
powerMod200(p) == IF p = 0 THEN 1 ELSE (2 * powerMod200(p - 1)) % 200

\* The double (ms / 3600000) * 100 of 36 k + 18 seconds, which is k + 1/2
\* hundredths of an hour exactly: -1 when the product falls below k + 1/2,
\* 1 when it lies above, 0 when it is k + 1/2. The quotient (2k + 1) / 200
\* is rounded to 53 bits, r is what the division leaves in 200ths of its
\* last bit; times 100, the error moves the product off k + 1/2 when it
\* exceeds half of the last bit of the product.
halfError(k) ==
    LET n == 2 * k + 1
        e == exponentOf(n, 200)
        f == exponentOf(n, 2)
        r == ((n % 200) * powerMod200(52 - e)) % 200
    IN  IF f - e # 6 THEN 0
        ELSE IF r > 64 /\ r < 100 THEN 0 - 1
        ELSE IF r > 100 /\ r < 136 THEN 1
        ELSE 0

\* Math.round((ms / 3600000) * 100) of s seconds, in doubles: hundredths of
\* an hour; Math.round takes a half up
RoundHours(s) ==
    IF s = NaN THEN NaN
    ELSE IF s >= 0 /\ s % 36 = 18
    THEN IF halfError(s \div 36) < 0 THEN s \div 36 ELSE s \div 36 + 1
    ELSE IF s < 0 /\ (0 - s) % 36 = 18
    THEN IF halfError((0 - s) \div 36) > 0
         THEN 0 - ((0 - s) \div 36) - 1
         ELSE 0 - ((0 - s) \div 36)
    ELSE RoundDiv(s, 36)

\* Math.round((totalAgeMs / validAgeCount / 3600000) * 100) of a total of
\* seconds, in doubles: the mean is a half of a hundredth only when it is a
\* whole number of seconds
RoundAverage(total, count) ==
    IF total % count = 0 THEN RoundHours(total \div count)
    ELSE RoundDiv(total, count * 36)

Range(s) == {s[i] : i \in DOMAIN s}

\* Array.prototype.filter: the elements for which the callback returned true;
\* keep[i] is the callback's result on (s[i], i - 1)
Filtered(s, keep) ==
    LET F[i \in 0..Len(s)] ==
            IF i = 0 THEN <<>>
            ELSE IF keep[i] THEN Append(F[i - 1], s[i]) ELSE F[i - 1]
    IN  F[Len(s)]

\* SortDescending leaving the array as it is
Unsorted(s, key) == s

\* SortDescending returning the first entry only
FirstOnly(s, key) == IF Len(s) = 0 THEN s ELSE <<s[1]>>

\* Array.prototype.sort((a, b) => key(b) - key(a)): stable, descending;
\* key[i] is the key of s[i]
SortDescending(s, key) ==
    LET Insert(t, x) ==
            LET k == Cardinality({j \in DOMAIN t : key[t[j]] >= key[x]})
            IN  SubSeq(t, 1, k) \o <<x>> \o SubSeq(t, k + 1, Len(t))
        F[i \in 0..Len(s)] == IF i = 0 THEN <<>> ELSE Insert(F[i - 1], i)
    IN  [j \in DOMAIN s |-> s[F[Len(s)][j]]]

NoMetrics ==
    [totalOpenChats |-> 0, averageAgeInHours |-> 0, maxAgeInHours |-> 0,
     chatsWithDelayedResponse |-> 0, openChatDetails |-> <<>>,
     delayedResponseDetails |-> <<>>, validActivityChats |-> 0]

\* an absent cursor (undefined)
NoCursor == [chunk |-> 0, page |-> 0]

\* the result of computeAverageReplyDelay for no reply pair
NoDelay ==
    [deltasAbs |-> <<>>, deltasBiz |-> <<>>, avgAbsoluteMs |-> <<0, 1>>,
     avgBusinessMs |-> <<0, 1>>]

\* no request to the messages route and no reply statistics under way
OnlyChatAnalytics ==
    /\ startDate = 0
    /\ endDate = 0
    /\ idx = 0
    /\ calls = <<>>
    /\ baseCursor = NoCursor
    /\ windows = <<>>
    /\ results = <<>>
    /\ messages = <<>>
    /\ replyDelay = NoDelay

----------------------------------------------------------------------------
\* Timestamp-based variant (route "timestamp")

\* TimestampKeep reopening a chat whose latest message is as old as the closure
TimestampKeepAtClosure(chat, index) ==
    IF chat.is_exited THEN FALSE
    ELSE IF ~Truthy(chat.closed_at) THEN TRUE
    ELSE IF HasMessageTimestamp(chat)
         THEN chat.latest_message.timestamp >= chat.closed_at
         ELSE FALSE

\* TimestampKeep without the is_exited test
TimestampKeepExited(chat, index) ==
    IF ~Truthy(chat.closed_at) THEN TRUE
    ELSE IF HasMessageTimestamp(chat)
         THEN chat.latest_message.timestamp > chat.closed_at
         ELSE FALSE

\* TimestampKeep asking for a message of a chat that was never closed
TimestampKeepNeedsMessage(chat, index) ==
    IF chat.is_exited THEN FALSE
    ELSE IF ~Truthy(chat.closed_at) THEN HasMessageTimestamp(chat)
    ELSE IF HasMessageTimestamp(chat)
         THEN chat.latest_message.timestamp > chat.closed_at
         ELSE FALSE

\* the callback of chats.filter in filterForOpenChats
TimestampKeep(chat, index) ==
    IF chat.is_exited THEN FALSE
    ELSE IF ~Truthy(chat.closed_at) THEN TRUE
    ELSE IF HasMessageTimestamp(chat)
         THEN chat.latest_message.timestamp > chat.closed_at
         ELSE FALSE

filterForOpenChats(list) ==
    Filtered(list, [i \in DOMAIN list |-> TimestampKeep(list[i], i - 1)])

\* isMessageFromSupportTeam without Method 3, the support team list
isMessageFromSupportTeamNoList(message, chat) ==
    IF message.from_me = TRUE THEN TRUE
    ELSE IF message.sender_phone = chat.org_phone THEN TRUE
    ELSE FALSE

\* Method 1 to 3 of the helper; Method 4 only logs
isMessageFromSupportTeam(message, chat) ==
    IF message.from_me = TRUE THEN TRUE
    ELSE IF message.sender_phone = chat.org_phone THEN TRUE
    ELSE IF message.sender_phone \in supportTeamPhones THEN TRUE
    ELSE FALSE

\* "Determine last activity time", the same in every variant
lastActivityTimeOf(chat) ==
    IF HasMessageTimestamp(chat) THEN chat.latest_message.timestamp
    ELSE IF Truthy(chat.updated_at) THEN chat.updated_at
    ELSE chat.created_at

\* hoursSinceLastMessage > 168 / > 72 / > 48 / else, for a wait in seconds
waitTier(wait) ==
    IF wait > 168 * Hour THEN "critical"
    ELSE IF wait > 72 * Hour THEN "high"
    ELSE IF wait > 48 * Hour THEN "medium"
    ELSE "low"

\* supportTeamOverdue without RULE 1: the wait alone decides
supportTeamOverdueNoRule1(chat, currentTime) ==
    IF chat.latest_message.exists
    THEN LET wait == Minus(currentTime, chat.latest_message.timestamp)
         IN  IF Greater(wait, OverdueHours * Hour)
             THEN [requiresResponse |-> TRUE, urgencyLevel |-> waitTier(wait)]
             ELSE [requiresResponse |-> FALSE, urgencyLevel |-> "low"]
    ELSE [requiresResponse |-> FALSE, urgencyLevel |-> "low"]

\* supportTeamOverdue flagging a wait of exactly the threshold
supportTeamOverdueAtThreshold(chat, currentTime) ==
    IF chat.latest_message.exists
    THEN LET wait == Minus(currentTime, chat.latest_message.timestamp)
             isFromSupport == isMessageFromSupportTeam(chat.latest_message, chat)
         IN  IF isFromSupport
             THEN [requiresResponse |-> FALSE, urgencyLevel |-> "low"]
             ELSE IF AtLeast(wait, OverdueHours * Hour)
             THEN [requiresResponse |-> TRUE, urgencyLevel |-> waitTier(wait)]
             ELSE [requiresResponse |-> FALSE, urgencyLevel |-> "low"]
    ELSE [requiresResponse |-> FALSE, urgencyLevel |-> "low"]

\* "ENHANCED overdue logic with support team check": RULE 1, RULE 2, the
\* not-overdue branch and the "unclear case" a wait of NaN falls to, as
\* [requiresResponse, urgencyLevel]
supportTeamOverdue(chat, currentTime) ==
    IF chat.latest_message.exists
    THEN LET wait == Minus(currentTime, chat.latest_message.timestamp)
             isFromSupport == isMessageFromSupportTeam(chat.latest_message, chat)
         IN  IF isFromSupport
             THEN [requiresResponse |-> FALSE, urgencyLevel |-> "low"]
             ELSE IF ~isFromSupport /\ Greater(wait, OverdueHours * Hour)
             THEN [requiresResponse |-> TRUE, urgencyLevel |-> waitTier(wait)]
             ELSE IF ~isFromSupport /\ AtMost(wait, OverdueHours * Hour)
             THEN [requiresResponse |-> FALSE, urgencyLevel |-> "low"]
             ELSE [requiresResponse |-> FALSE, urgencyLevel |-> "low"]
    ELSE [requiresResponse |-> FALSE, urgencyLevel |-> "low"]

\* the object a calculateChatUrgency returns
UrgencyResult(chat, currentTime, verdict) ==
    LET lastActivityTime == lastActivityTimeOf(chat)
        ageMs == Minus(currentTime, lastActivityTime)
    IN  [ageMs |-> ageMs, ageInHours |-> RoundHours(ageMs),
         lastActivityTime |-> lastActivityTime,
         urgencyLevel |-> verdict.urgencyLevel,
         requiresResponse |-> verdict.requiresResponse]

calculateChatUrgencySupportTeam(chat, currentTime) ==
    UrgencyResult(chat, currentTime, supportTeamOverdue(chat, currentTime))

\* new Date(lastActivityTime).toISOString() of the entry pushed to
\* openChatDetails throws a RangeError when the last activity time is NaN; GET
\* catches it and answers 500
throwsRangeError(list) == \E i \in DOMAIN list : lastActivityTimeOf(list[i]) = NaN

\* the entry pushed to openChatDetails
openChatDetail(chat, u) ==
    [chatId |-> chat.chat_id, ageInHours |-> u.ageInHours,
     chatType |-> chat.chat_type, agentPhone |-> chat.assigned_to,
     lastActivity |-> u.lastActivityTime, memberCount |-> chat.member_count,
     isAssigned |-> TruthyStr(chat.assigned_to), orgPhone |-> chat.org_phone,
     lastMessageFromCustomer |->
         IF chat.latest_message.exists THEN ~chat.latest_message.from_me ELSE FALSE,
     requiresResponse |-> u.requiresResponse, urgencyLevel |-> u.urgencyLevel]

\* delayedDetail without the urgency of the classification
delayedDetailLowUrgency(chat, u, hoursWithoutResponse) ==
    [chatId |-> chat.chat_id, chatType |-> chat.chat_type,
     lastMessageTime |->
         IF HasMessageTimestamp(chat) THEN chat.latest_message.timestamp
         ELSE chat.updated_at,
     hoursWithoutResponse |-> hoursWithoutResponse,
     agentPhone |-> chat.assigned_to,
     lastMessageFromCustomer |->
         IF chat.latest_message.exists THEN ~chat.latest_message.from_me ELSE FALSE,
     memberCount |-> chat.member_count, orgPhone |-> chat.org_phone,
     urgencyLevel |-> "low"]

\* the entry pushed to delayedResponseDetails; hoursWithoutResponse is given
delayedDetail(chat, u, hoursWithoutResponse) ==
    [chatId |-> chat.chat_id, chatType |-> chat.chat_type,
     lastMessageTime |->
         IF HasMessageTimestamp(chat) THEN chat.latest_message.timestamp
         ELSE chat.updated_at,
     hoursWithoutResponse |-> hoursWithoutResponse,
     agentPhone |-> chat.assigned_to,
     lastMessageFromCustomer |->
         IF chat.latest_message.exists THEN ~chat.latest_message.from_me ELSE FALSE,
     memberCount |-> chat.member_count, orgPhone |-> chat.org_phone,
     urgencyLevel |-> u.urgencyLevel]

\* hoursWithoutResponse of processChatsToMetrics: since the latest message when
\* there is one, else the (rounded) age
hoursSinceMessage(chat, u, currentTime) ==
    IF HasMessageTimestamp(chat)
    THEN RoundHours(currentTime - chat.latest_message.timestamp)
    ELSE u.ageInHours

\* the forEach, the averages and the two sorts shared by processChatsToMetrics
\* and processChats; urgency[i] is what the variant's calculateChatUrgency
\* returns for list[i] and hoursWithout[i] its hoursWithoutResponse
aggregate(list, urgency, hoursWithout) ==
    LET U(i) == urgency[i]
        Acc[i \in 0..Len(list)] ==
            IF i = 0
            THEN [totalAgeMs |-> 0, maxAgeMs |-> 0, chatsWithDelayedResponse |-> 0,
                  validAgeCount |-> 0, open |-> <<>>, delayed |-> <<>>]
            ELSE LET a == Acc[i - 1]
                     u == U(i)
                     valid == AtLeast(u.ageMs, 0)
                 IN  [totalAgeMs |-> IF valid THEN a.totalAgeMs + u.ageMs ELSE a.totalAgeMs,
                      validAgeCount |-> IF valid THEN a.validAgeCount + 1 ELSE a.validAgeCount,
                      maxAgeMs |-> IF valid /\ u.ageMs > a.maxAgeMs THEN u.ageMs ELSE a.maxAgeMs,
                      chatsWithDelayedResponse |->
                          IF u.requiresResponse THEN a.chatsWithDelayedResponse + 1
                          ELSE a.chatsWithDelayedResponse,
                      delayed |->
                          IF u.requiresResponse
                          THEN Append(a.delayed,
                                      delayedDetail(list[i], u, hoursWithout[i]))
                          ELSE a.delayed,
                      open |-> Append(a.open, openChatDetail(list[i], u))]
        r == Acc[Len(list)]
    IN  [totalOpenChats |-> Len(list),
         averageAgeInHours |->
             IF r.validAgeCount > 0 THEN RoundAverage(r.totalAgeMs, r.validAgeCount) ELSE 0,
         maxAgeInHours |-> RoundHours(r.maxAgeMs),
         chatsWithDelayedResponse |-> r.chatsWithDelayedResponse,
         openChatDetails |->
             SortDescending(r.open, [j \in DOMAIN r.open |-> r.open[j].ageInHours]),
         delayedResponseDetails |->
             SortDescending(r.delayed,
                            [j \in DOMAIN r.delayed |-> r.delayed[j].hoursWithoutResponse]),
         validActivityChats |-> r.validAgeCount]

processChatsToMetricsSupportTeam(list, currentTime) ==
    LET urgency == [i \in DOMAIN list |-> calculateChatUrgencySupportTeam(list[i], currentTime)]
    IN  aggregate(list, urgency,
                  [i \in DOMAIN list |-> hoursSinceMessage(list[i], urgency[i], currentTime)])

\* GET of the timestamp-based variant, from the awaited fetch to the response
RespondTimestamp ==
    /\ route = "timestamp"
    /\ pc = "fetched"
    /\ openChats' = filterForOpenChats(chats)
    /\ IF throwsRangeError(openChats')
       THEN metrics' = metrics /\ pc' = "failed"
       ELSE metrics' = processChatsToMetricsSupportTeam(openChats', now) /\ pc' = "done"
    /\ UNCHANGED <<route, now, chats>>
    /\ UNCHANGED fetchVars
    /\ UNCHANGED <<messageVars, replyVars>>

----------------------------------------------------------------------------
\* Activity-window variant (route "activity"): app/api/chat-analytics/route.ts

Day == 24 * Hour

\* the callback of chats.filter in filterForOpenChats: exited, old closure,
\* then the activity tests A to F
ActivityKeep(chat, index) ==
    LET hoursAgo == RoundDiv(now - chat.closed_at, Hour)
        shouldExclude == Truthy(chat.closed_at) /\ hoursAgo > 24
        sixMonthsAgo == now - 180 * Day
        byMessage == HasMessageTimestamp(chat)
                         /\ chat.latest_message.timestamp > sixMonthsAgo
        byUpdate == Truthy(chat.updated_at) /\ chat.updated_at > sixMonthsAgo
        byCreation == Greater(chat.created_at, sixMonthsAgo)
        byAssignment == TruthyStr(chat.assigned_to)
        byInviteLink == TruthyStr(chat.invite_link)
        byDebugIndex == index < 5
    IN  IF chat.is_exited THEN FALSE
        ELSE IF shouldExclude THEN FALSE
        ELSE byMessage \/ byUpdate \/ byCreation \/ byAssignment \/ byInviteLink
                 \/ byDebugIndex

filterForOpenChatsActivity(list) ==
    Filtered(list, [i \in DOMAIN list |-> ActivityKeep(list[i], i - 1)])

\* "Enhanced overdue response detection", as [requiresResponse, urgencyLevel]
activityOverdue(chat, currentTime) ==
    LET ageMs == Minus(currentTime, lastActivityTimeOf(chat))
        byAge == [requiresResponse |-> FALSE,
                  urgencyLevel |-> IF Greater(ageMs, 168 * Hour) THEN "medium" ELSE "low"]
    IN  IF chat.latest_message.exists
        THEN LET lastMessageFromCustomer == ~chat.latest_message.from_me
                 wait == Minus(currentTime, chat.latest_message.timestamp)
             IN  IF lastMessageFromCustomer /\ Greater(wait, OverdueHours * Hour)
                 THEN [requiresResponse |-> TRUE, urgencyLevel |-> waitTier(wait)]
                 ELSE IF lastMessageFromCustomer /\ AtMost(wait, OverdueHours * Hour)
                 THEN [requiresResponse |-> FALSE, urgencyLevel |-> "low"]
                 ELSE byAge
        ELSE byAge

calculateChatUrgencyActivity(chat, currentTime) ==
    UrgencyResult(chat, currentTime, activityOverdue(chat, currentTime))

processChatsToMetricsActivity(list, currentTime) ==
    LET urgency == [i \in DOMAIN list |-> calculateChatUrgencyActivity(list[i], currentTime)]
    IN  aggregate(list, urgency,
                  [i \in DOMAIN list |-> hoursSinceMessage(list[i], urgency[i], currentTime)])

\* GET of the activity-window variant, from the awaited fetch to the response
RespondActivity ==
    /\ route = "activity"
    /\ pc = "fetched"
    /\ openChats' = filterForOpenChatsActivity(chats)
    /\ IF throwsRangeError(openChats')
       THEN metrics' = metrics /\ pc' = "failed"
       ELSE metrics' = processChatsToMetricsActivity(openChats', now) /\ pc' = "done"
    /\ UNCHANGED <<route, now, chats>>
    /\ UNCHANGED fetchVars
    /\ UNCHANGED <<messageVars, replyVars>>

----------------------------------------------------------------------------
\* Type-specific variant (route "typed"): the specific-agent handler

\* the callback of chats.filter in filterOpenChats
TypedKeep(chat, index) ==
    LET chatAge == Minus(now, chat.created_at)
        sinceLastActivity == Minus(now, lastActivityTimeOf(chat))
    IN  IF Truthy(chat.closed_at) THEN FALSE
        ELSE IF chat.chat_type = "group" /\ chat.is_exited THEN FALSE
        ELSE IF chat.chat_type = "business"
             THEN AtMost(chatAge, 180 * Day) \/ AtMost(sinceLastActivity, 45 * Day)
        ELSE IF chat.chat_type = "user"
             THEN AtMost(chatAge, 120 * Day) \/ AtMost(sinceLastActivity, 30 * Day)
        ELSE IF chat.chat_type = "group"
             THEN IF chat.member_count <= 1 THEN FALSE
                  ELSE AtMost(chatAge, 90 * Day) \/ AtMost(sinceLastActivity, 21 * Day)
        ELSE AtMost(chatAge, 60 * Day) \/ AtMost(sinceLastActivity, 30 * Day)

filterOpenChats(list) ==
    Filtered(list, [i \in DOMAIN list |-> TypedKeep(list[i], i - 1)])

\* const specificAgent of GET
specificAgent == Str("+911852701495")

\* String.prototype.slice(from) for 0 <= from
slice(s, from) == SubSeq(s, from + 1, Len(s))

\* s.replace(pattern, '') with a string pattern: the first occurrence only
RECURSIVE replaceFirst(_, _)
replaceFirst(s, pattern) ==
    IF Len(s) < Len(pattern) THEN s
    ELSE IF SubSeq(s, 1, Len(pattern)) = pattern THEN slice(s, Len(pattern))
    ELSE SubSeq(s, 1, 1) \o replaceFirst(slice(s, 1), pattern)

\* s.replace(/pattern/g, ''): every occurrence, scanning from the left
RECURSIVE replaceAll(_, _)
replaceAll(s, pattern) ==
    IF Len(s) < Len(pattern) THEN s
    ELSE IF SubSeq(s, 1, Len(pattern)) = pattern
         THEN replaceAll(slice(s, Len(pattern)), pattern)
    ELSE SubSeq(s, 1, 1) \o replaceAll(slice(s, 1), pattern)

\* the code units \s of a regular expression matches: tab, line feed,
\* vertical tab, form feed, carriage return, blank, no-break space (U+00A0),
\* U+1680, U+2000 to U+200A, line and paragraph separator (U+2028, U+2029),
\* U+202F, U+205F, U+3000 and U+FEFF
whiteSpace ==
    (9..13) \cup {32, 160, 5760} \cup (8192..8202)
        \cup {8232, 8233, 8239, 8287, 12288, 65279}

\* s.replace(/[...]/g, '') for a class of characters
RECURSIVE removeChars(_, _)
removeChars(s, chars) ==
    IF Len(s) = 0 THEN s
    ELSE IF s[1] \in chars THEN removeChars(slice(s, 1), chars)
    ELSE SubSeq(s, 1, 1) \o removeChars(slice(s, 1), chars)

\* .replace(/@c\.us/g, '').replace(/\+/g, '').replace(/[\s-]/g, '')
cleanPhone(s) ==
    removeChars(replaceAll(replaceAll(s, Str("@c.us")), Str("+")),
                whiteSpace \cup {codeUnit("-")})

\* a.endsWith(b)
endsWith(a, b) == Len(b) <= Len(a) /\ SubSeq(a, Len(a) - Len(b) + 1, Len(a)) = b

\* a.includes(b)
includes(a, b) == \E i \in 0..(Len(a) - Len(b)) : SubSeq(a, i + 1, i + Len(b)) = b

\* "Convert the specific agent number to all possible formats"
agentFormats ==
    <<specificAgent, replaceFirst(specificAgent, Str("+")), slice(specificAgent, 3),
      slice(specificAgent, 1), Str("918527014950"), Str("+918527014950"),
      Str("918527014950@c.us"), Str("8527014950"), Str("85270 14950"),
      Str("852-701-4950"), Str("852 701 4950")>>

\* agentFormats.some(...) for one phone field: the cleaned phone equals, ends
\* with, ends, contains or is contained in a cleaned format
matchesAgentFormat(phone) ==
    LET clean == cleanPhone(phone)
    IN  \E k \in DOMAIN agentFormats :
            LET cleanFormat == cleanPhone(agentFormats[k])
            IN  \/ clean = cleanFormat
                \/ endsWith(clean, cleanFormat)
                \/ endsWith(cleanFormat, clean)
                \/ includes(clean, cleanFormat)
                \/ includes(cleanFormat, clean)

\* the callback of chats.filter in filterBySpecificAgent
AgentKeep(chat, index) ==
    \/ TruthyStr(chat.org_phone) /\ matchesAgentFormat(chat.org_phone)
    \/ \E k \in DOMAIN chat.chat_org_phones :
           matchesAgentFormat(chat.chat_org_phones[k])
    \/ TruthyStr(chat.assigned_to) /\ matchesAgentFormat(chat.assigned_to)
    \/ /\ chat.latest_message.exists
       /\ TruthyStr(chat.latest_message.sender_phone)
       /\ matchesAgentFormat(chat.latest_message.sender_phone)

filterBySpecificAgent(list) ==
    Filtered(list, [i \in DOMAIN list |-> AgentKeep(list[i], i - 1)])

\* "More realistic response requirements": the per-type thresholds, as
\* [requiresResponse, urgencyLevel] before the overall urgency is set
typedResponse(chat, ageMs) ==
    LET none == [requiresResponse |-> FALSE, urgencyLevel |-> "low"]
        flag(level) == [requiresResponse |-> TRUE, urgencyLevel |-> level]
    IN  IF chat.latest_message.exists
        THEN IF ~chat.latest_message.from_me
             THEN IF chat.chat_type = "business"
                  THEN IF ageMs > 24 * Hour
                       THEN flag(IF ageMs > 72 * Hour THEN "critical"
                                 ELSE IF ageMs > 48 * Hour THEN "high" ELSE "medium")
                       ELSE none
                  ELSE IF chat.chat_type = "user"
                  THEN IF ageMs > 48 * Hour
                       THEN flag(IF ageMs > 168 * Hour THEN "critical"
                                 ELSE IF ageMs > 72 * Hour THEN "high" ELSE "medium")
                       ELSE none
                  ELSE IF chat.chat_type = "group"
                  THEN IF ageMs > 72 * Hour
                       THEN flag(IF ageMs > 168 * Hour THEN "critical"
                                 ELSE IF ageMs > 120 * Hour THEN "high" ELSE "medium")
                       ELSE none
                  ELSE none
             ELSE none
        ELSE IF chat.chat_type = "business" /\ ageMs > 48 * Hour THEN flag("medium")
        ELSE IF chat.chat_type = "user" /\ ageMs > 72 * Hour THEN flag("medium")
        ELSE none

\* "Overall urgency based on age": assigned after the per-type logic, to every chat
overallUrgency(ageMs) ==
    IF ageMs > 168 * Hour THEN "critical"
    ELSE IF ageMs > 120 * Hour THEN "high"
    ELSE IF ageMs > 72 * Hour THEN "medium"
    ELSE "low"

typedOverdue(chat, currentTime) ==
    LET ageMs == Minus(currentTime, lastActivityTimeOf(chat))
    IN  [requiresResponse |-> typedResponse(chat, ageMs).requiresResponse,
         urgencyLevel |-> overallUrgency(ageMs)]

calculateChatUrgencyTyped(chat, currentTime) ==
    UrgencyResult(chat, currentTime, typedOverdue(chat, currentTime))

\* hoursWithoutResponse of processChats: the (rounded) age
hoursOfAge(chat, u, currentTime) == u.ageInHours

processChats(list, currentTime) ==
    LET urgency == [i \in DOMAIN list |-> calculateChatUrgencyTyped(list[i], currentTime)]
    IN  aggregate(list, urgency,
                  [i \in DOMAIN list |-> hoursOfAge(list[i], urgency[i], currentTime)])

\* GET of the specific-agent variant, for a request without an orgPhone
\* parameter, from the awaited fetch to the response
RespondTyped ==
    /\ route = "typed"
    /\ pc = "fetched"
    /\ openChats' = filterBySpecificAgent(filterOpenChats(chats))
    /\ IF throwsRangeError(openChats')
       THEN metrics' = metrics /\ pc' = "failed"
       ELSE metrics' = processChats(openChats', now) /\ pc' = "done"
    /\ UNCHANGED <<route, now, chats>>
    /\ UNCHANGED fetchVars
    /\ UNCHANGED <<messageVars, replyVars>>

----------------------------------------------------------------------------
\* Robust-age variant (route "robust"): the handler with chatType, agent,
\* orgPhone, filterOpen and timeFilter parameters, for a request without any

\* a resolved activity: timestamp, method tag and validity
Activity(time, method, valid) ==
    [lastActivityTime |-> time, ageCalculationMethod |-> method,
     isValidActivity |-> valid]

\* the priority chain of user, business and other chats
resolveByPriority(chat, currentTime) ==
    IF HasMessageTimestamp(chat) /\ chat.latest_message.timestamp > 0
    THEN Activity(chat.latest_message.timestamp, "latest_message", TRUE)
    ELSE IF Truthy(chat.updated_at) /\ chat.updated_at > 0
    THEN Activity(chat.updated_at, "updated_at", TRUE)
    ELSE IF Truthy(chat.created_at) /\ chat.created_at > 0
    THEN Activity(chat.created_at, "created_at", FALSE)
    ELSE Activity(currentTime - Hour, "fallback", FALSE)

\* resolveGroup taking the message whenever there is one
resolveGroupMessageFirst(chat, currentTime) ==
    resolveByPriority(chat, currentTime)

\* the chain of group chats: the more recent of message and update
resolveGroup(chat, currentTime) ==
    LET messageTime ==
            IF HasMessageTimestamp(chat) THEN chat.latest_message.timestamp ELSE Absent
        updateTime == chat.updated_at
    IN  IF Truthy(messageTime) /\ Truthy(updateTime)
        THEN IF messageTime > updateTime
             THEN Activity(messageTime, "latest_message", TRUE)
             ELSE Activity(updateTime, "updated_at", TRUE)
        ELSE IF Truthy(messageTime)
        THEN Activity(messageTime, "latest_message", TRUE)
        ELSE IF Truthy(updateTime)
        THEN Activity(updateTime, "updated_at", TRUE)
        ELSE IF Truthy(chat.created_at)
        THEN Activity(chat.created_at, "created_at", FALSE)
        ELSE Activity(currentTime - Hour, "fallback", FALSE)

\* resolveActivity looking at updated_at before the latest message
resolveActivityUpdateFirst(chat, currentTime) ==
    IF chat.chat_type = "group" THEN resolveGroup(chat, currentTime)
    ELSE IF Truthy(chat.updated_at)
    THEN Activity(chat.updated_at, "updated_at", TRUE)
    ELSE resolveByPriority(chat, currentTime)

\* "Chat type-specific age calculation logic"
resolveActivity(chat, currentTime) ==
    IF chat.chat_type = "group" THEN resolveGroup(chat, currentTime)
    ELSE resolveByPriority(chat, currentTime)

\* 1 year
maxReasonableAge == 365 * Day

\* clampActivity letting every timestamp through
clampActivityOff(activity, currentTime) == activity

\* "Validate timestamp is reasonable (not in future, not too old)"
clampActivity(activity, currentTime) ==
    IF activity.lastActivityTime > currentTime
    THEN Activity(currentTime, "corrected_future", FALSE)
    ELSE IF currentTime - activity.lastActivityTime > maxReasonableAge
    THEN Activity(currentTime - maxReasonableAge, "corrected_old", FALSE)
    ELSE activity

twentyFourHoursMs == 24 * Hour

\* "Enhanced delayed response detection": whether the chat is pushed to
\* delayedResponseDetails
robustDelayed(chat, ageMs, currentTime) ==
    IF HasMessageTimestamp(chat)
    THEN LET timeSinceLastMessage == currentTime - chat.latest_message.timestamp
             responseThreshold ==
                 IF chat.chat_type = "business" THEN 12 * Hour ELSE twentyFourHoursMs
             shouldConsiderDelayed ==
                 IF chat.chat_type \in {"user", "group", "business"}
                 THEN ~chat.latest_message.from_me
                 ELSE FALSE
         IN  shouldConsiderDelayed /\ timeSinceLastMessage >= responseThreshold
    ELSE LET noMessageThreshold ==
                 IF chat.chat_type = "business" THEN 12 * Hour
                 ELSE IF chat.chat_type = "group" THEN 48 * Hour
                 ELSE twentyFourHoursMs
         IN  ageMs >= noMessageThreshold

\* the entry pushed to delayedResponseDetails (reason is "" where the source
\* sets no reason)
robustDelayedDetail(chat, ageMs, currentTime) ==
    IF HasMessageTimestamp(chat)
    THEN [chatId |-> chat.chat_id, chatType |-> chat.chat_type,
          lastMessageTime |-> chat.latest_message.timestamp,
          hoursWithoutResponse |->
              RoundHours(currentTime - chat.latest_message.timestamp),
          agentPhone |-> chat.assigned_to,
          lastMessageFromCustomer |-> ~chat.latest_message.from_me,
          memberCount |-> chat.member_count, reason |-> "",
          orgPhone |-> chat.org_phone]
    ELSE [chatId |-> chat.chat_id, chatType |-> chat.chat_type,
          lastMessageTime |->
              IF Truthy(chat.updated_at) THEN chat.updated_at ELSE chat.created_at,
          hoursWithoutResponse |-> RoundHours(ageMs),
          agentPhone |-> chat.assigned_to,
          lastMessageFromCustomer |-> FALSE,
          memberCount |-> chat.member_count, reason |-> "no_messages",
          orgPhone |-> chat.org_phone]

\* the entry pushed to openChatDetails
robustChatDetail(chat, activity, ageMs) ==
    [chatId |-> chat.chat_id, ageInHours |-> RoundHours(ageMs),
     chatType |-> chat.chat_type, agentPhone |-> chat.assigned_to,
     lastActivity |-> activity.lastActivityTime,
     ageCalculationMethod |-> activity.ageCalculationMethod,
     isValidActivity |-> activity.isValidActivity,
     memberCount |-> chat.member_count,
     isAssigned |-> TruthyStr(chat.assigned_to), orgPhone |-> chat.org_phone]

\* countsInAverage without the validity test
countsInAverageAny(activity, ageMs) == ageMs >= 0

\* "Only include in average calculation if it's a valid activity timestamp"
countsInAverage(activity, ageMs) == activity.isValidActivity /\ ageMs >= 0

\* processChats of the robust-age variant: the forEach, the averages over the
\* valid activities and the two sorts
processChatsRobust(list, currentTime) ==
    LET activity ==
            [i \in DOMAIN list |->
                clampActivity(resolveActivity(list[i], currentTime), currentTime)]
        ageMs == [i \in DOMAIN list |-> currentTime - activity[i].lastActivityTime]
        Acc[i \in 0..Len(list)] ==
            IF i = 0
            THEN [totalAgeMs |-> 0, maxAgeMs |-> 0, chatsWithDelayedResponse |-> 0,
                  open |-> <<>>, delayed |-> <<>>]
            ELSE LET a == Acc[i - 1]
                     counted == countsInAverage(activity[i], ageMs[i])
                     delayed == robustDelayed(list[i], ageMs[i], currentTime)
                 IN  [totalAgeMs |->
                          IF counted THEN a.totalAgeMs + ageMs[i] ELSE a.totalAgeMs,
                      maxAgeMs |->
                          IF counted /\ ageMs[i] > a.maxAgeMs THEN ageMs[i]
                          ELSE a.maxAgeMs,
                      chatsWithDelayedResponse |->
                          IF delayed THEN a.chatsWithDelayedResponse + 1
                          ELSE a.chatsWithDelayedResponse,
                      delayed |->
                          IF delayed
                          THEN Append(a.delayed,
                                      robustDelayedDetail(list[i], ageMs[i], currentTime))
                          ELSE a.delayed,
                      open |-> Append(a.open,
                                      robustChatDetail(list[i], activity[i], ageMs[i]))]
        r == Acc[Len(list)]
        validAgeCount ==
            Cardinality({j \in DOMAIN r.open : r.open[j].isValidActivity})
    IN  [totalOpenChats |-> Len(list),
         averageAgeInHours |->
             IF validAgeCount > 0 THEN RoundAverage(r.totalAgeMs, validAgeCount) ELSE 0,
         maxAgeInHours |-> RoundHours(r.maxAgeMs),
         chatsWithDelayedResponse |-> r.chatsWithDelayedResponse,
         openChatDetails |->
             SortDescending(r.open, [j \in DOMAIN r.open |-> r.open[j].ageInHours]),
         delayedResponseDetails |->
             SortDescending(r.delayed,
                            [j \in DOMAIN r.delayed |-> r.delayed[j].hoursWithoutResponse]),
         validActivityChats |-> validAgeCount]

\* "1. Filter by open status if requested": filterOpen defaults to true
filterOpenRobust(list) ==
    Filtered(list, [i \in DOMAIN list |-> ~Truthy(list[i].closed_at)])

\* GET of the robust-age variant, for a request without parameters, from the
\* awaited fetch to the response
RespondRobust ==
    /\ route = "robust"
    /\ pc = "fetched"
    /\ openChats' = filterOpenRobust(chats)
    /\ metrics' = processChatsRobust(openChats', now)
    /\ pc' = "done"
    /\ UNCHANGED <<route, now, chats>>
    /\ UNCHANGED fetchVars
    /\ UNCHANGED <<messageVars, replyVars>>

----------------------------------------------------------------------------
\* Inputs

ClosedTime == Now - 100 * Hour

\* group chats of the target agent around a closure: exited or not, closed or
\* not, degenerate or not, with no message or one just before, at or just
\* after the closure
OpennessChats ==
    {Chat(0, "group", exited, closed, Now - 300 * Hour, Now - 100 * Hour, msg,
          members, targetAgent, <<>>, <<>>) :
        exited \in BOOLEAN, closed \in {Absent, ClosedTime},
        msg \in {NoMessage} \cup
                {Message(ClosedTime + d, fromMe, customerPhone) :
                    d \in {-1, 0, 1}, fromMe \in BOOLEAN},
        members \in {1, 3}}

\* every list of at most n chats of D, as the upstream pages hold them
SeqsOf(D, n) == UNION {[1..k -> D] : k \in 0..n}

\* group chats of the target agent for the activity window: one without any
\* activity signal, one updated yesterday, one old but assigned, one exited
WindowChats ==
    {Chat(1, "group", FALSE, Absent, Now - 200 * Day, Now - 200 * Day, NoMessage,
          3, targetAgent, <<>>, <<>>),
     Chat(2, "group", FALSE, Absent, Now - 200 * Day, Now - Day, NoMessage,
          3, targetAgent, <<>>, <<>>),
     Chat(3, "group", FALSE, Absent, Now - 200 * Day, Now - 200 * Day, NoMessage,
          3, targetAgent, Str("918527439222@c.us"), <<>>),
     Chat(4, "group", TRUE, Absent, Now - 200 * Day, Now - Day, NoMessage,
          3, targetAgent, <<>>, <<>>)}

\* the waits, in seconds, on both sides of the overdue threshold and of the tiers
Waits ==
    {Hour, 24 * Hour, 24 * Hour + 1, 49 * Hour, 73 * Hour, 169 * Hour, 2000 * Hour}

\* open group chats of the target agent without a message, or with a latest
\* message of every wait, flag and sender
UrgencyChats ==
    {Chat(0, "group", FALSE, Absent, Now - 3000 * Hour, Now - 10 * Hour, msg,
          3, targetAgent, <<>>, <<>>) :
        msg \in {NoMessage} \cup
                {Message(Now - w, fromMe, sender) :
                    w \in Waits, fromMe \in BOOLEAN,
                    sender \in {targetAgent, Str("918527439222@c.us"), customerPhone}}}

\* the ages, in seconds, on both sides of every threshold of the typed variant
Ages ==
    {10 * Hour, 24 * Hour + 1, 48 * Hour, 49 * Hour, 73 * Hour, 100 * Hour,
     121 * Hour, 169 * Hour}

\* never-closed chats of the target agent of every type, created 200 hours ago:
\* without a message and last updated at every age, or with a latest message
\* of every age from the customer or from support
TypedChats ==
    {Chat(0, type, FALSE, Absent, Now - 200 * Hour, Now - age, msg,
          3, targetAgent, <<>>, <<>>) :
        type \in {"user", "business", "group"}, age \in Ages,
        msg \in {NoMessage}} \cup
    {Chat(0, type, FALSE, Absent, Now - 200 * Hour, Now - age,
          Message(Now - age, fromMe, IF fromMe THEN targetAgent ELSE customerPhone),
          3, targetAgent, <<>>, <<>>) :
        type \in {"user", "business", "group"}, age \in Ages, fromMe \in BOOLEAN}

\* timestamps of the robust-age resolver: recent ones, one in the future and
\* one more than a year old
RobustTimes == {Now - 5 * Hour, Now - 30 * Hour, Now + Hour, Now - 400 * Day}

\* chats of every type created 50 hours ago with every combination of a latest
\* message and an updated_at, present or absent, sane or not; chats without any
\* timestamp; chats support answered; the last two are closed
RobustChats ==
    {Chat(0, type, FALSE, Absent, Now - 50 * Hour, updated, msg, 3, targetAgent, <<>>, <<>>) :
        type \in {"user", "business", "group"},
        updated \in {Absent, Now - 10 * Hour, Now - 400 * Day},
        msg \in {NoMessage} \cup {Message(t, FALSE, customerPhone) : t \in RobustTimes}}
    \cup
    {Chat(0, type, FALSE, Absent, Absent, Absent, NoMessage, 3, targetAgent, <<>>, <<>>) :
        type \in {"user", "business", "group"}}
    \cup
    {Chat(0, type, FALSE, Absent, Now - 50 * Hour, Now - 10 * Hour,
          Message(Now - 30 * Hour, TRUE, targetAgent), 3, targetAgent, <<>>, <<>>) :
        type \in {"user", "business", "group"}}
    \cup
    {Chat(0, type, FALSE, Now - 2 * Hour, Now - 50 * Hour, Now - 10 * Hour,
          NoMessage, 3, targetAgent, <<>>, <<>>) :
        type \in {"user", "group"}}

InitWith(r, lists) ==
    /\ route = r
    /\ now = Now
    /\ pc = "fetched"
    /\ chats \in lists
    /\ openChats = <<>>
    /\ metrics = NoMetrics
    /\ upstream = <<>>
    /\ offset = 0
    /\ pageCount = 0
    /\ totalChatsChecked = 0
    /\ OnlyChatAnalytics

\* a handler whose fetch returned a list of at most n chats of D, chat_id by
\* position
InitListed(r, D, n) ==
    /\ route = r
    /\ now = Now
    /\ pc = "fetched"
    /\ \E k \in 0..n : \E f \in [1..k -> D] :
           chats = [i \in 1..k |-> [f[i] EXCEPT !.chat_id = i]]
    /\ openChats = <<>>
    /\ metrics = NoMetrics
    /\ upstream = <<>>
    /\ offset = 0
    /\ pageCount = 0
    /\ totalChatsChecked = 0
    /\ OnlyChatAnalytics

InitOpenness == InitListed("timestamp", OpennessChats, MaxChats)

NextTimestamp == RespondTimestamp

\* the timestamp-based handler on chats around a closure
SpecOpenness == InitOpenness /\ [][NextTimestamp]_vars

----------------------------------------------------------------------------
\* Openness claims of the timestamp-based filter

\* the chat is classified open: the filter returned it
ClassifiedOpen(chat) == \E j \in DOMAIN openChats : openChats[j].chat_id = chat.chat_id

\* the chat reached the aggregator's output
InDetails(chat) ==
    \/ \E j \in DOMAIN metrics.openChatDetails :
           metrics.openChatDetails[j].chatId = chat.chat_id
    \/ \E j \in DOMAIN metrics.delayedResponseDetails :
           metrics.delayedResponseDetails[j].chatId = chat.chat_id

\* C1: a non-exited chat whose closedAt is set is classified open if and only
\* if it has a latest-message timestamp strictly greater than closedAt; an equal,
\* an earlier or an absent timestamp yields closed.
ReopeningLaw ==
    pc = "done" =>
        \A i \in DOMAIN chats :
            LET c == chats[i]
            IN  (~c.is_exited /\ c.closed_at # Absent) =>
                    (ClassifiedOpen(c) <=>
                        /\ c.latest_message.exists
                        /\ c.latest_message.timestamp # Absent
                        /\ c.latest_message.timestamp > c.closed_at)

\* a response that reopened one closed chat and left closed one whose latest
\* message is as old as the closure
ReopeningWitness ==
    /\ pc = "done"
    /\ \E i, k \in DOMAIN chats :
           /\ ~chats[i].is_exited /\ chats[i].closed_at # Absent
           /\ chats[i].latest_message.exists
           /\ chats[i].latest_message.timestamp > chats[i].closed_at
           /\ ClassifiedOpen(chats[i])
           /\ ~chats[k].is_exited /\ chats[k].closed_at # Absent
           /\ chats[k].latest_message.exists
           /\ chats[k].latest_message.timestamp = chats[k].closed_at
           /\ ~ClassifiedOpen(chats[k])

\* C2: an exited chat is classified closed and never reaches the aggregator,
\* whatever its closedAt and latest message are.
ExitedExcluded ==
    pc = "done" =>
        \A i \in DOMAIN chats :
            chats[i].is_exited => ~ClassifiedOpen(chats[i]) /\ ~InDetails(chats[i])

\* a response that dropped an exited chat that was never closed and one that a
\* later message would have reopened, next to nothing else
ExitedWitness ==
    /\ pc = "done"
    /\ \E i, k \in DOMAIN chats :
           /\ chats[i].is_exited /\ chats[i].closed_at = Absent
           /\ chats[k].is_exited /\ chats[k].closed_at # Absent
           /\ chats[k].latest_message.exists
           /\ chats[k].latest_message.timestamp > chats[k].closed_at
    /\ openChats = <<>>
    /\ metrics.totalOpenChats = 0

\* C3 (as claimed): a group chat whose memberCount is <= 1 is classified closed,
\* whatever its closedAt and latest message are.
DegenerateGroupClosed ==
    pc = "done" =>
        \A i \in DOMAIN chats :
            (chats[i].chat_type = "group" /\ chats[i].member_count <= 1) =>
                ~ClassifiedOpen(chats[i])

\* C4: a chat that is not exited and has no closedAt is classified open,
\* whatever its latest message is.
NeverClosedIsOpen ==
    pc = "done" =>
        \A i \in DOMAIN chats :
            (~chats[i].is_exited /\ chats[i].closed_at = Absent) =>
                ClassifiedOpen(chats[i])

\* a response that kept a never-closed chat without a message and one with a
\* message, both listed in openChatDetails
NeverClosedWitness ==
    /\ pc = "done"
    /\ \E i, k \in DOMAIN chats :
           /\ ~chats[i].is_exited /\ chats[i].closed_at = Absent
           /\ ~chats[i].latest_message.exists
           /\ ClassifiedOpen(chats[i]) /\ InDetails(chats[i])
           /\ ~chats[k].is_exited /\ chats[k].closed_at = Absent
           /\ chats[k].latest_message.exists
           /\ ClassifiedOpen(chats[k]) /\ InDetails(chats[k])

----------------------------------------------------------------------------
\* Openness claim of the activity-window filter

InitActivity == InitWith("activity", SeqsOf(WindowChats, MaxListed))

NextActivity == RespondActivity

\* the activity-window handler on lists long enough to pass the fifth position
SpecActivity == InitActivity /\ [][NextActivity]_vars

\* the decision the filter takes on the chat when it is the only one listed
OpenAlone(chat) == filterForOpenChatsActivity(<<chat>>) = <<chat>>

\* C5 (as claimed): the decision for a chat depends on its own fields and now
\* only; every chat of a list gets the decision it gets alone, whatever its
\* position and the other chats are.
DecisionIsPositionIndependent ==
    pc = "done" => openChats = SelectSeq(chats, OpenAlone)

----------------------------------------------------------------------------
\* Urgency claims of the group-chat variants

InitUrgency ==
    \E r \in {"timestamp", "activity"} : InitListed(r, UrgencyChats, MaxChats)

NextUrgency == RespondTimestamp \/ RespondActivity

\* both group-chat handlers on chats of every wait and sender
SpecUrgency == InitUrgency /\ [][NextUrgency]_vars

\* the openChatDetails entry of a chat
DetailOf(chat) ==
    CHOOSE d \in Range(metrics.openChatDetails) : d.chatId = chat.chat_id

InDelayed(chat) ==
    \E j \in DOMAIN metrics.delayedResponseDetails :
        metrics.delayedResponseDetails[j].chatId = chat.chat_id

\* the three support signals of the support-team variant
SupportSignal(chat) ==
    \/ chat.latest_message.from_me = TRUE
    \/ chat.latest_message.sender_phone = chat.org_phone
    \/ chat.latest_message.sender_phone \in supportTeamPhones

\* how the deployed variant resolves the sender of the latest message
ResolvedFromSupport(chat) ==
    IF route = "timestamp" THEN SupportSignal(chat) ELSE chat.latest_message.from_me

WaitOf(chat) == now - chat.latest_message.timestamp

\* C6: whenever the latest message is resolved as sent by support, the result
\* has requiresResponse = false, for every wait.
SupportSentNeverRequiresResponse ==
    pc = "done" =>
        \A i \in DOMAIN openChats :
            LET c == openChats[i]
            IN  (c.latest_message.exists /\ ResolvedFromSupport(c)) =>
                    ~DetailOf(c).requiresResponse /\ ~InDelayed(c)

\* a response of the support-team variant with a chat that support answered
\* 2000 hours ago, not flagged
SupportSentWitness ==
    /\ pc = "done"
    /\ route = "timestamp"
    /\ \E i \in DOMAIN openChats :
           /\ openChats[i].latest_message.exists
           /\ ~openChats[i].latest_message.from_me
           /\ openChats[i].latest_message.sender_phone = Str("918527439222@c.us")
           /\ WaitOf(openChats[i]) > 168 * Hour
           /\ ~DetailOf(openChats[i]).requiresResponse

\* C7: in the support-team variant requiresResponse is true if and only if the
\* chat has a latest message, resolved as customer-sent, older than 24 hours; a
\* wait of exactly 24 hours and a chat without a message give false.
ConversationTurnRule ==
    (pc = "done" /\ route = "timestamp") =>
        \A i \in DOMAIN openChats :
            LET c == openChats[i]
            IN  /\ DetailOf(c).requiresResponse <=>
                       /\ c.latest_message.exists
                       /\ ~isMessageFromSupportTeam(c.latest_message, c)
                       /\ WaitOf(c) > 24 * Hour
                /\ InDelayed(c) <=> DetailOf(c).requiresResponse

\* a response with a customer message of exactly 24 hours, not flagged, and one
\* a second older, flagged
ConversationTurnWitness ==
    /\ pc = "done"
    /\ route = "timestamp"
    /\ \E i, k \in DOMAIN openChats :
           /\ openChats[i].latest_message.exists
           /\ openChats[i].latest_message.sender_phone = customerPhone
           /\ ~openChats[i].latest_message.from_me
           /\ WaitOf(openChats[i]) = 24 * Hour
           /\ ~DetailOf(openChats[i]).requiresResponse
           /\ openChats[k].latest_message.exists
           /\ openChats[k].latest_message.sender_phone = customerPhone
           /\ ~openChats[k].latest_message.from_me
           /\ WaitOf(openChats[k]) = 24 * Hour + 1
           /\ DetailOf(openChats[k]).requiresResponse

\* C8: a latest message is resolved as sent by support iff from_me is true, or
\* its sender is the chat's orgPhone, or its sender is a known support phone;
\* otherwise it is customer-sent: past the threshold the chat is flagged exactly
\* when none of the three signals applies.
SenderAttribution ==
    (pc = "done" /\ route = "timestamp") =>
        \A i \in DOMAIN openChats :
            LET c == openChats[i]
            IN  (c.latest_message.exists /\ WaitOf(c) > OverdueHours * Hour) =>
                    (DetailOf(c).requiresResponse <=>
                        ~(\/ c.latest_message.from_me = TRUE
                          \/ c.latest_message.sender_phone = c.org_phone
                          \/ c.latest_message.sender_phone \in
                                 {Str("918527014950@c.us"), Str("918527439222@c.us")}))

\* a response with an overdue message of the secondary support phone, resolved
\* as support, and an overdue one of a customer, resolved as the customer's
SenderAttributionWitness ==
    /\ pc = "done"
    /\ route = "timestamp"
    /\ \E i, k \in DOMAIN openChats :
           /\ openChats[i].latest_message.exists
           /\ ~openChats[i].latest_message.from_me
           /\ openChats[i].latest_message.sender_phone = Str("918527439222@c.us")
           /\ WaitOf(openChats[i]) = 49 * Hour
           /\ ~DetailOf(openChats[i]).requiresResponse
           /\ openChats[k].latest_message.exists
           /\ ~openChats[k].latest_message.from_me
           /\ openChats[k].latest_message.sender_phone = customerPhone
           /\ WaitOf(openChats[k]) = 49 * Hour
           /\ DetailOf(openChats[k]).requiresResponse

----------------------------------------------------------------------------
\* Urgency claims of the type-specific variant

InitTyped == InitListed("typed", TypedChats, MaxChats)

NextTyped == RespondTyped

\* the specific-agent handler on chats of every type and age
SpecTyped == InitTyped /\ [][NextTyped]_vars

\* the tier of a wait for the bounds (in hours) of critical, high and medium
TierFor(wait, critical, high, medium) ==
    IF wait > critical * Hour THEN "critical"
    ELSE IF wait > high * Hour THEN "high"
    ELSE IF wait > medium * Hour THEN "medium"
    ELSE "low"

\* C9 (as claimed): with a customer-sent latest message urgencyLevel is, for
\* user and business chats, critical above 168h, high above 72h, medium above
\* 48h, else low; for group chats critical above 168h, high above 120h, medium
\* above 72h, else low.
UrgencyTierMapping ==
    pc = "done" =>
        \A i \in DOMAIN openChats :
            LET c == openChats[i]
            IN  (c.latest_message.exists /\ ~c.latest_message.from_me) =>
                    DetailOf(c).urgencyLevel =
                        IF c.chat_type = "group"
                        THEN TierFor(WaitOf(c), 168, 120, 72)
                        ELSE TierFor(WaitOf(c), 168, 72, 48)

\* C10 (as claimed): a chat without a latest message whose age exceeds the
\* no-message threshold of its type (business 48h, user 72h) has
\* requiresResponse = true together with urgencyLevel = medium.
NoMessageRule ==
    pc = "done" =>
        \A i \in DOMAIN openChats :
            LET c == openChats[i]
                age == now - lastActivityTimeOf(c)
            IN  (/\ ~c.latest_message.exists
                 /\ \/ c.chat_type = "business" /\ age > 48 * Hour
                    \/ c.chat_type = "user" /\ age > 72 * Hour) =>
                    /\ DetailOf(c).requiresResponse
                    /\ DetailOf(c).urgencyLevel = "medium"

----------------------------------------------------------------------------
\* Activity-resolution claims of the robust-age variant

InitRobust == InitListed("robust", RobustChats, MaxChats)

NextRobust == RespondRobust

\* the robust-age handler on chats of every type and every timestamp source
SpecRobust == InitRobust /\ [][NextRobust]_vars

\* the source the resolver is to choose for a chat, as <<timestamp, tag>>:
\* message, update, creation, fallback; for a group the more recent of message
\* and update when it has both
ChosenSource(chat) ==
    LET hasMessage == chat.latest_message.exists /\ chat.latest_message.timestamp # Absent
        hasUpdate == chat.updated_at # Absent
        message == <<chat.latest_message.timestamp, "latest_message">>
        update == <<chat.updated_at, "updated_at">>
    IN  IF chat.chat_type = "group" /\ hasMessage /\ hasUpdate
        THEN IF chat.latest_message.timestamp > chat.updated_at THEN message ELSE update
        ELSE IF hasMessage THEN message
        ELSE IF hasUpdate THEN update
        ELSE IF chat.created_at # Absent THEN <<chat.created_at, "created_at">>
        ELSE <<now - Hour, "fallback">>

\* a timestamp the sanity clamp leaves alone
Sane(time) == time <= now /\ now - time <= 365 * 24 * Hour

\* C11: for user and business chats the last-activity timestamp is the
\* latest-message timestamp when present, else updatedAt when present, else
\* createdAt when present, else now minus 1 hour, and the method tag names the
\* source that was chosen (a timestamp the sanity clamp replaces is the matter
\* of C13).
ActivityResolutionByPriority ==
    (pc = "done" /\ route = "robust") =>
        \A i \in DOMAIN openChats :
            LET c == openChats[i]
                chosen ==
                    IF c.latest_message.exists /\ c.latest_message.timestamp # Absent
                    THEN <<c.latest_message.timestamp, "latest_message">>
                    ELSE IF c.updated_at # Absent THEN <<c.updated_at, "updated_at">>
                    ELSE IF c.created_at # Absent THEN <<c.created_at, "created_at">>
                    ELSE <<now - Hour, "fallback">>
            IN  (c.chat_type \in {"user", "business"} /\ Sane(chosen[1])) =>
                    /\ DetailOf(c).lastActivity = chosen[1]
                    /\ DetailOf(c).ageCalculationMethod = chosen[2]

\* a response with a user chat resolved by its message although it has a later
\* update, and a business chat without any timestamp, resolved by the fallback
ActivityResolutionWitness ==
    /\ pc = "done"
    /\ route = "robust"
    /\ \E i, k \in DOMAIN openChats :
           /\ openChats[i].chat_type = "user"
           /\ openChats[i].latest_message.exists
           /\ openChats[i].latest_message.timestamp = Now - 30 * Hour
           /\ openChats[i].updated_at = Now - 10 * Hour
           /\ DetailOf(openChats[i]).ageCalculationMethod = "latest_message"
           /\ DetailOf(openChats[i]).lastActivity = Now - 30 * Hour
           /\ openChats[k].chat_type = "business"
           /\ ~openChats[k].latest_message.exists
           /\ openChats[k].updated_at = Absent
           /\ openChats[k].created_at = Absent
           /\ DetailOf(openChats[k]).ageCalculationMethod = "fallback"
           /\ DetailOf(openChats[k]).lastActivity = Now - Hour

\* C12: for group chats, when both the latest-message timestamp and updatedAt
\* are present the last-activity timestamp is the more recent of the two, never
\* earlier than either; when only one is present it is that one; otherwise
\* createdAt, otherwise now minus 1 hour (a timestamp the sanity clamp replaces
\* is the matter of C13).
GroupActivityIsMostRecent ==
    (pc = "done" /\ route = "robust") =>
        \A i \in DOMAIN openChats :
            LET c == openChats[i]
                hasMessage == c.latest_message.exists /\ c.latest_message.timestamp # Absent
                hasUpdate == c.updated_at # Absent
                messageTime == c.latest_message.timestamp
                expected ==
                    IF hasMessage /\ hasUpdate
                    THEN IF messageTime >= c.updated_at THEN messageTime ELSE c.updated_at
                    ELSE IF hasMessage THEN messageTime
                    ELSE IF hasUpdate THEN c.updated_at
                    ELSE IF c.created_at # Absent THEN c.created_at
                    ELSE now - Hour
            IN  (c.chat_type = "group" /\ Sane(expected)) =>
                    /\ DetailOf(c).lastActivity = expected
                    /\ (hasMessage /\ hasUpdate) =>
                           /\ DetailOf(c).lastActivity >= messageTime
                           /\ DetailOf(c).lastActivity >= c.updated_at

\* a response with a group chat updated after its latest message, resolved by
\* the update, and one with a message only, resolved by the message
GroupActivityWitness ==
    /\ pc = "done"
    /\ route = "robust"
    /\ \E i, k \in DOMAIN openChats :
           /\ openChats[i].chat_type = "group"
           /\ openChats[i].latest_message.exists
           /\ openChats[i].latest_message.timestamp = Now - 30 * Hour
           /\ openChats[i].updated_at = Now - 10 * Hour
           /\ DetailOf(openChats[i]).lastActivity = Now - 10 * Hour
           /\ openChats[k].chat_type = "group"
           /\ openChats[k].latest_message.exists
           /\ openChats[k].latest_message.timestamp = Now - 5 * Hour
           /\ openChats[k].updated_at = Absent
           /\ DetailOf(openChats[k]).lastActivity = Now - 5 * Hour

\* C13: a resolved timestamp later than now is replaced by now, one more than
\* one year before now by now minus one year, both with a corrected method tag
\* and isValid = false; every openChatDetails entry has an age between 0 and
\* one year (8760 hours, here in hundredths) inclusive.
SanityClamp ==
    (pc = "done" /\ route = "robust") =>
        /\ \A i \in DOMAIN openChats :
               LET c == openChats[i]
                   resolved == ChosenSource(c)[1]
                   d == DetailOf(c)
               IN  /\ resolved > now =>
                          /\ d.lastActivity = now
                          /\ d.ageCalculationMethod = "corrected_future"
                          /\ d.isValidActivity = FALSE
                   /\ now - resolved > 365 * 24 * Hour =>
                          /\ d.lastActivity = now - 365 * 24 * Hour
                          /\ d.ageCalculationMethod = "corrected_old"
                          /\ d.isValidActivity = FALSE
        /\ \A j \in DOMAIN metrics.openChatDetails :
               /\ metrics.openChatDetails[j].ageInHours >= 0
               /\ metrics.openChatDetails[j].ageInHours <= 8760 * 100

\* a response with a chat whose message is an hour ahead of now, listed with
\* age 0, and one last active 400 days ago, listed with the age of a year
SanityClampWitness ==
    /\ pc = "done"
    /\ route = "robust"
    /\ \E i, k \in DOMAIN openChats :
           /\ openChats[i].latest_message.exists
           /\ openChats[i].latest_message.timestamp = Now + Hour
           /\ DetailOf(openChats[i]).ageCalculationMethod = "corrected_future"
           /\ DetailOf(openChats[i]).ageInHours = 0
           /\ ~openChats[k].latest_message.exists
           /\ openChats[k].updated_at = Now - 400 * 24 * Hour
           /\ DetailOf(openChats[k]).ageCalculationMethod = "corrected_old"
           /\ DetailOf(openChats[k]).ageInHours = 8760 * 100

\* the positions of the chats whose source is the latest message or updatedAt
\* and was not clamped
ValidPositions ==
    {i \in DOMAIN openChats :
        /\ ChosenSource(openChats[i])[2] \in {"latest_message", "updated_at"}
        /\ Sane(ChosenSource(openChats[i])[1])}

\* the sum and the maximum (0 for none) of the ages of a set of positions
RECURSIVE SumOfAges(_)
SumOfAges(positions) ==
    IF positions = {} THEN 0
    ELSE LET i == CHOOSE x \in positions : TRUE
         IN  (now - ChosenSource(openChats[i])[1]) + SumOfAges(positions \ {i})

MaxOfAges(positions) ==
    IF positions = {} THEN 0
    ELSE LET ages == {now - ChosenSource(openChats[i])[1] : i \in positions}
         IN  CHOOSE a \in ages : \A b \in ages : a >= b

\* C14: the average and the maximum are those of exactly the chats whose
\* resolved source is latest-message or updatedAt and was not clamped;
\* validAgeCount is their number while totalOpenChats counts every input chat;
\* averageAgeInHours is totalAgeMs / validAgeCount in hours (rounded to
\* hundredths), and 0 when validAgeCount is 0.
ValidOnlyAggregation ==
    (pc = "done" /\ route = "robust") =>
        /\ metrics.validActivityChats = Cardinality(ValidPositions)
        /\ metrics.totalOpenChats = Len(openChats)
        /\ metrics.averageAgeInHours =
               IF Cardinality(ValidPositions) = 0 THEN 0
               ELSE RoundAverage(SumOfAges(ValidPositions), Cardinality(ValidPositions))
        /\ metrics.maxAgeInHours = RoundHours(MaxOfAges(ValidPositions))

\* a response over a chat last active 10 hours ago by its update and a chat
\* known by its creation 50 hours ago only: two chats, one valid age, the
\* average and the maximum at 10 hours
ValidOnlyWitness ==
    /\ pc = "done"
    /\ route = "robust"
    /\ Len(openChats) = 2
    /\ \E i, k \in DOMAIN openChats :
           /\ ~openChats[i].latest_message.exists
           /\ openChats[i].updated_at = Now - 10 * Hour
           /\ ~openChats[k].latest_message.exists
           /\ openChats[k].updated_at = Absent
           /\ openChats[k].created_at = Now - 50 * Hour
           /\ DetailOf(openChats[k]).ageInHours = 5000
    /\ metrics.totalOpenChats = 2
    /\ metrics.validActivityChats = 1
    /\ metrics.averageAgeInHours = 1000
    /\ metrics.maxAgeInHours = 1000

----------------------------------------------------------------------------
\* Age-source claim of the activity-window variant

\* open group chats of the target agent created 10 or 50 hours ago, with or
\* without an update 20 hours ago and a latest message 5 hours ago
AgeSourceChats ==
    {Chat(0, "group", FALSE, Absent, created, updated, msg, 3, targetAgent, <<>>, <<>>) :
        created \in {Now - 10 * Hour, Now - 50 * Hour},
        updated \in {Absent, Now - 20 * Hour},
        msg \in {NoMessage} \cup
                {Message(Now - 5 * Hour, fromMe, customerPhone) : fromMe \in BOOLEAN}}

InitAgeSource == InitListed("activity", AgeSourceChats, MaxChats)

\* the activity-window handler on chats with and without an activity signal
SpecAgeSource == InitAgeSource /\ [][NextActivity]_vars

\* the positions of the chats that have a latest message or an updatedAt
SignalPositions ==
    {i \in DOMAIN openChats :
        \/ openChats[i].latest_message.exists
        \/ openChats[i].updated_at # Absent}

\* C15 (as claimed): a chat with no latest message and no updatedAt, whose age
\* comes from createdAt, contributes to neither the numerator nor the
\* denominator of averageAgeInHours, while it is counted in totalOpenChats and
\* listed in openChatDetails.
CreatedOnlyOutsideAverage ==
    pc = "done" =>
        /\ metrics.totalOpenChats = Len(openChats)
        /\ \A i \in DOMAIN openChats : InDetails(openChats[i])
        /\ metrics.validActivityChats = Cardinality(SignalPositions)
        /\ metrics.averageAgeInHours =
               IF SignalPositions = {} THEN 0
               ELSE RoundAverage(SumOfAges(SignalPositions),
                                 Cardinality(SignalPositions))

----------------------------------------------------------------------------
\* Aggregate claims of the support-team and of the robust-age aggregator

InitAggregate ==
    \/ InitListed("timestamp", UrgencyChats, MaxChats)
    \/ InitListed("robust", RobustChats, MaxChats)

NextAggregate == RespondTimestamp \/ RespondRobust

\* the two aggregators, each on the chats of its variant
SpecAggregate == InitAggregate /\ [][NextAggregate]_vars

\* C16: for every input list the returned metrics satisfy
\* chatsWithDelayedResponse = length of delayedResponseDetails and
\* totalOpenChats = length of the input list = length of openChatDetails.
AggregateConsistency ==
    pc = "done" =>
        /\ metrics.chatsWithDelayedResponse = Len(metrics.delayedResponseDetails)
        /\ metrics.totalOpenChats = Len(openChats)
        /\ metrics.totalOpenChats = Len(metrics.openChatDetails)

\* a response of the robust-age aggregator over two chats, one of them delayed
AggregateConsistencyWitness ==
    /\ pc = "done"
    /\ route = "robust"
    /\ Len(openChats) = 2
    /\ metrics.totalOpenChats = 2
    /\ Len(metrics.delayedResponseDetails) = 1
    /\ metrics.chatsWithDelayedResponse = 1

\* C17: openChatDetails is non-increasing in ageInHours and
\* delayedResponseDetails is non-increasing in hoursWithoutResponse, for every
\* input list and every input order.
SortOrder ==
    pc = "done" =>
        /\ \A j \in 1..(Len(metrics.openChatDetails) - 1) :
               metrics.openChatDetails[j].ageInHours >=
                   metrics.openChatDetails[j + 1].ageInHours
        /\ \A j \in 1..(Len(metrics.delayedResponseDetails) - 1) :
               metrics.delayedResponseDetails[j].hoursWithoutResponse >=
                   metrics.delayedResponseDetails[j + 1].hoursWithoutResponse

\* a response of the support-team aggregator over two overdue chats given the
\* younger one first: both lists come back with the older one first
SortOrderWitness ==
    /\ pc = "done"
    /\ route = "timestamp"
    /\ Len(openChats) = 2
    /\ openChats[1].latest_message.exists /\ openChats[2].latest_message.exists
    /\ openChats[1].latest_message.timestamp > openChats[2].latest_message.timestamp
    /\ Len(metrics.delayedResponseDetails) = 2
    /\ metrics.openChatDetails[1].chatId = openChats[2].chat_id
    /\ metrics.openChatDetails[1].ageInHours > metrics.openChatDetails[2].ageInHours
    /\ metrics.delayedResponseDetails[1].chatId = openChats[2].chat_id
    /\ metrics.delayedResponseDetails[1].hoursWithoutResponse >
           metrics.delayedResponseDetails[2].hoursWithoutResponse

----------------------------------------------------------------------------
\* Delayed-response list of processChatsToMetrics

\* the classification calculateChatUrgency gives the chat in the deployed
\* group-chat variant
ClassificationOf(chat) ==
    IF route = "timestamp" THEN calculateChatUrgencySupportTeam(chat, now)
    ELSE calculateChatUrgencyActivity(chat, now)

\* the positions of delayedResponseDetails that hold the chat
DelayedEntriesOf(chat) ==
    {j \in DOMAIN metrics.delayedResponseDetails :
        metrics.delayedResponseDetails[j].chatId = chat.chat_id}

\* C18: delayedResponseDetails contains exactly one entry for each input chat
\* whose classification has requiresResponse = true and no entry for any other
\* chat; every chat in delayedResponseDetails also appears in openChatDetails
\* with its requiresResponse flag true and the same urgencyLevel.
DelayedListIsTheFlaggedChats ==
    pc = "done" =>
        /\ \A i \in DOMAIN openChats :
               Cardinality(DelayedEntriesOf(openChats[i])) =
                   IF ClassificationOf(openChats[i]).requiresResponse THEN 1 ELSE 0
        /\ \A j \in DOMAIN metrics.delayedResponseDetails :
               /\ \E i \in DOMAIN openChats :
                      openChats[i].chat_id = metrics.delayedResponseDetails[j].chatId
               /\ \E k \in DOMAIN metrics.openChatDetails :
                      /\ metrics.openChatDetails[k].chatId =
                             metrics.delayedResponseDetails[j].chatId
                      /\ metrics.openChatDetails[k].requiresResponse = TRUE
                      /\ metrics.openChatDetails[k].urgencyLevel =
                             metrics.delayedResponseDetails[j].urgencyLevel

\* a response of the support-team variant over a chat waiting 73 hours for an
\* answer and a chat support answered: one delayed entry, of high urgency
DelayedListWitness ==
    /\ pc = "done"
    /\ route = "timestamp"
    /\ Len(openChats) = 2
    /\ Len(metrics.delayedResponseDetails) = 1
    /\ \E i, k \in DOMAIN openChats :
           /\ ClassificationOf(openChats[i]).requiresResponse
           /\ WaitOf(openChats[i]) = 73 * Hour
           /\ metrics.delayedResponseDetails[1].chatId = openChats[i].chat_id
           /\ metrics.delayedResponseDetails[1].urgencyLevel = "high"
           /\ DetailOf(openChats[i]).urgencyLevel = "high"
           /\ openChats[k].latest_message.exists
           /\ openChats[k].latest_message.from_me
           /\ DelayedEntriesOf(openChats[k]) = {}

----------------------------------------------------------------------------
\* Paginated fetch: one action per iteration of the while loop of a fetch,
\* from the getChats call to the test that continues or leaves the loop

\* response.data.chats of getChats({limit, offset})
pageAt(off) ==
    SubSeq(upstream, off + 1,
           IF off + limit <= Len(upstream) THEN off + limit ELSE Len(upstream))

\* new Date(chat.updated_at || chat.created_at).getTime()
recencyOf(chat) ==
    IF Truthy(chat.updated_at) THEN chat.updated_at ELSE chat.created_at

\* chatMap.has(id); a Map is the sequence of its values in insertion order
mapHas(map, id) == \E j \in DOMAIN map : map[j].chat_id = id

\* chatMap.get(id)
mapGet(map, id) == map[CHOOSE j \in DOMAIN map : map[j].chat_id = id]

\* chatMap.set(chat.chat_id, chat): a present key keeps its position
mapSet(map, chat) ==
    IF mapHas(map, chat.chat_id)
    THEN [j \in DOMAIN map |-> IF map[j].chat_id = chat.chat_id THEN chat ELSE map[j]]
    ELSE Append(map, chat)

\* the forEach keeping the first record of every chat_id
mergeFirstWins(map, page) ==
    LET F[i \in 0..Len(page)] ==
            IF i = 0 THEN map
            ELSE IF mapHas(F[i - 1], page[i].chat_id) THEN F[i - 1]
                 ELSE mapSet(F[i - 1], page[i])
    IN  F[Len(page)]

\* the forEach of fetchAllChats and fetchAllChatsWithDeduplication: "Keep the
\* most recently updated version"
mergeMostRecent(map, page) ==
    LET F[i \in 0..Len(page)] ==
            IF i = 0 THEN map
            ELSE IF mapHas(F[i - 1], page[i].chat_id)
                 THEN IF Greater(recencyOf(page[i]),
                                 recencyOf(mapGet(F[i - 1], page[i].chat_id)))
                      THEN mapSet(F[i - 1], page[i])
                      ELSE F[i - 1]
                 ELSE mapSet(F[i - 1], page[i])
    IN  F[Len(page)]

\* one iteration of the loop of a deduplicating fetch whose getChats succeeds
fetchDeduplicated(r) ==
    LET page == pageAt(offset)
    IN  /\ route = r
        /\ pc = "fetching"
        /\ pageCount' = pageCount + 1
        /\ totalChatsChecked' = totalChatsChecked + Len(page)
        /\ chats' = mergeMostRecent(chats, page)
        /\ IF Len(page) < limit
           THEN offset' = offset /\ pc' = "fetched"
           ELSE /\ offset' = offset + limit
                /\ pc' = IF pageCount' >= MaxPages THEN "fetched" ELSE "fetching"
        /\ UNCHANGED <<route, now, openChats, metrics, upstream>>
        /\ UNCHANGED <<messageVars, replyVars>>

\* fetchAllChats of the type-specific variant
FetchPageTyped == fetchDeduplicated("typed")

\* fetchAllChatsWithDeduplication of the robust-age variant
FetchPageRobust == fetchDeduplicated("robust")

\* the iteration without the safety limit: while (hasMore)
FetchPageActivityNoCap ==
    LET page == pageAt(offset)
    IN  /\ route = "activity"
        /\ pc = "fetching"
        /\ totalChatsChecked' = totalChatsChecked + Len(page)
        /\ chats' = chats \o SelectSeq(page, LAMBDA chat : chat.org_phone = targetAgent)
        /\ IF Len(page) < limit
           THEN offset' = offset /\ pc' = "fetched"
           ELSE offset' = offset + limit /\ pc' = "fetching"
        /\ UNCHANGED <<route, now, openChats, metrics, upstream, pageCount>>
        /\ UNCHANGED <<messageVars, replyVars>>

\* one iteration of the loop of fetchChatsByOrgPhone of the activity-window
\* variant whose getChats succeeds
FetchPageActivity ==
    LET page == pageAt(offset)
        filteredChats == SelectSeq(page, LAMBDA chat : chat.org_phone = targetAgent)
    IN  /\ route = "activity"
        /\ pc = "fetching"
        /\ totalChatsChecked' = totalChatsChecked + Len(page)
        /\ chats' = chats \o filteredChats
        /\ IF Len(page) < limit
           THEN offset' = offset /\ pc' = "fetched"
           ELSE /\ offset' = offset + limit
                /\ pc' = IF offset' < MaxPages * limit THEN "fetching" ELSE "fetched"
        /\ UNCHANGED <<route, now, openChats, metrics, upstream, pageCount>>
        /\ UNCHANGED <<messageVars, replyVars>>

\* an iteration whose getChats throws: the catch ends the loop and the fetch
\* returns what it has
FetchFails ==
    /\ pc = "fetching"
    /\ pc' = "fetched"
    /\ pageCount' = IF route \in {"typed", "robust"} THEN pageCount + 1 ELSE pageCount
    /\ UNCHANGED <<route, now, chats, openChats, metrics, upstream, offset,
                   totalChatsChecked>>
    /\ UNCHANGED <<messageVars, replyVars>>

\* a handler that enters its fetch over an upstream of the given records
InitFetch(r, records) ==
    /\ route = r
    /\ now = Now
    /\ pc = "fetching"
    /\ chats = <<>>
    /\ openChats = <<>>
    /\ metrics = NoMetrics
    /\ upstream \in SeqsOf(records, MaxUpstream)
    /\ offset = 0
    /\ pageCount = 0
    /\ totalChatsChecked = 0
    /\ OnlyChatAnalytics

\* two open user chats of the target agent in three versions each: created 7
\* hours ago and never updated, or created 20 hours ago and updated 10 or 5
\* hours ago
DedupChats ==
    {Chat(id, "user", FALSE, Absent, version[1], version[2], NoMessage, 3,
          targetAgent, <<>>, <<>>) :
        id \in {1, 2},
        version \in {<<Now - 7 * Hour, Absent>>, <<Now - 20 * Hour, Now - 10 * Hour>>,
                     <<Now - 20 * Hour, Now - 5 * Hour>>}}

InitDedup == \E r \in {"typed", "robust"} : InitFetch(r, DedupChats)

NextDedup ==
    FetchPageTyped \/ FetchPageRobust \/ FetchFails \/ RespondTyped \/ RespondRobust

\* the two deduplicating handlers over an upstream that repeats chats
SpecDedup == InitDedup /\ [][NextDedup]_vars

\* the records the pages processed so far have delivered
Received == SubSeq(upstream, 1, totalChatsChecked)

\* updatedAt of a record, createdAt when updatedAt is absent
Recency(chat) == IF chat.updated_at # Absent THEN chat.updated_at ELSE chat.created_at

\* C19: after any sequence of pages has been processed the result holds
\* exactly one record for every chatId seen, and that record has the most
\* recent updatedAt (createdAt when updatedAt is absent) among all records
\* with that chatId, in whatever order the duplicates arrived.
MostRecentVersionWins ==
    /\ \A j \in DOMAIN Received :
           Cardinality({i \in DOMAIN chats : chats[i].chat_id = Received[j].chat_id}) = 1
    /\ \A i \in DOMAIN chats :
           /\ \E j \in DOMAIN Received : Received[j] = chats[i]
           /\ \A j \in DOMAIN Received :
                  Received[j].chat_id = chats[i].chat_id =>
                      Recency(chats[i]) >= Recency(Received[j])

\* a fetch of two full pages in which one chat came back newer on the second
\* page and the other one older: the newer version of each is held
MostRecentVersionWitness ==
    /\ pc = "fetched"
    /\ totalChatsChecked = 4
    /\ upstream[3].chat_id = upstream[1].chat_id
    /\ Recency(upstream[3]) > Recency(upstream[1])
    /\ upstream[3].updated_at = Absent
    /\ upstream[4].chat_id = upstream[2].chat_id
    /\ Recency(upstream[4]) < Recency(upstream[2])
    /\ upstream[1].chat_id # upstream[2].chat_id
    /\ chats = <<upstream[3], upstream[2]>>

----------------------------------------------------------------------------
\* Fetch of the activity-window variant

\* group chats of the target agent and of another org phone, two chat ids,
\* updated 10 or 5 hours ago
PagedGroupChats ==
    {Chat(id, "group", FALSE, Absent, Now - 20 * Hour, updated, NoMessage, 3,
          org, <<>>, <<>>) :
        id \in {1, 2}, updated \in {Now - 10 * Hour, Now - 5 * Hour},
        org \in {targetAgent, Str("918527439222@c.us")}}

InitFetchActivity == InitFetch("activity", PagedGroupChats)

NextFetchActivity == FetchPageActivity \/ FetchFails \/ RespondActivity

\* the activity-window handler over an upstream that repeats chats
SpecFetchActivity == InitFetchActivity /\ [][NextFetchActivity]_vars

\* C20 (as claimed): the list fetchChatsByOrgPhone hands to the openness filter
\* and the aggregator holds at most one record per chatId, even when the
\* upstream returns the same chatId on several pages; no chat is counted twice
\* in totalOpenChats or listed twice in openChatDetails.
OneRecordPerChat ==
    /\ \A i, k \in DOMAIN chats :
           chats[i].chat_id = chats[k].chat_id => i = k
    /\ pc = "done" =>
           /\ \A i, k \in DOMAIN metrics.openChatDetails :
                  metrics.openChatDetails[i].chatId = metrics.openChatDetails[k].chatId
                      => i = k
           /\ metrics.totalOpenChats =
                  Cardinality({openChats[i].chat_id : i \in DOMAIN openChats})

\* C21 (as claimed): if a page request fails, the aggregator is not invoked on
\* the pages fetched so far; metrics are only ever computed from a complete
\* chat list, one whose fetch read the upstream to its end or to the safety
\* limit.
MetricsOnlyFromCompleteList ==
    pc = "done" =>
        \/ totalChatsChecked = Len(upstream)
        \/ offset >= MaxPages * limit

\* group chats of the target agent and of another org phone, one created 20
\* and one 30 hours ago
PaginationChats ==
    {Chat(1, "group", FALSE, Absent, Now - 20 * Hour, Now - 10 * Hour, NoMessage, 3,
          targetAgent, <<>>, <<>>),
     Chat(2, "group", FALSE, Absent, Now - 30 * Hour, Now - 10 * Hour, NoMessage, 3,
          targetAgent, <<>>, <<>>),
     Chat(3, "group", FALSE, Absent, Now - 20 * Hour, Now - 10 * Hour, NoMessage, 3,
          Str("918527439222@c.us"), <<>>, <<>>)}

InitPagination == InitFetch("activity", PaginationChats)

\* the activity-window handler whose awaited getChats calls all settle: a
\* pending iteration of the loop is eventually run
SpecPagination ==
    /\ InitPagination
    /\ [][NextFetchActivity]_vars
    /\ WF_vars(FetchPageActivity \/ FetchFails)

\* C28: the pagination of fetchChatsByOrgPhone terminates. A page is requested
\* only at an offset that is a multiple of limit below the safety limit (at
\* most MaxPages requests, 10 of offsets 0 to 9000 in the source); after a
\* request the loop either stops or moves to the next offset, so no offset is
\* requested twice; it stops after the first short page and after the first
\* failed request; and it eventually stops.
PaginationTerminates ==
    /\ [](pc = "fetching" =>
              \E k \in 0..(MaxPages - 1) :
                  offset = k * limit /\ totalChatsChecked = offset)
    /\ [][pc = "fetching" =>
              /\ pc' = "fetching" => offset' = offset + limit
              /\ Len(pageAt(offset)) < limit => pc' = "fetched"
              /\ totalChatsChecked' = totalChatsChecked => pc' = "fetched"]_vars
    /\ [][pc # "fetching" => pc' # "fetching"]_vars
    /\ <>(pc # "fetching")

\* a fetch that only full pages and the safety limit have stopped
PaginationWitness ==
    /\ pc = "fetched"
    /\ offset = MaxPages * limit
    /\ totalChatsChecked = MaxPages * limit

----------------------------------------------------------------------------
\* Malformed records in the support-team aggregator

\* open group chats of the target agent, with a chat_id or without one,
\* created 300 and updated 100 hours ago or with neither field, with no
\* message, a customer's message of 5 or 49 hours ago or one without timestamp
MalformedChats ==
    {Chat(id, "group", FALSE, Absent, times[1], times[2], msg, 3,
          targetAgent, <<>>, <<>>) :
        id \in {Absent, 1, 2},
        times \in {<<Now - 300 * Hour, Now - 100 * Hour>>, <<NaN, Absent>>},
        msg \in {NoMessage, Message(Now - 5 * Hour, FALSE, customerPhone),
                 Message(Now - 49 * Hour, FALSE, customerPhone),
                 Message(NaN, FALSE, customerPhone)}}

\* the lists the deduplicating fetch of this variant can return: no chat_id
\* twice (a record without chat_id is held under the key undefined)
InitMalformed ==
    /\ InitWith("timestamp", SeqsOf(MalformedChats, MaxChats + 1))
    /\ \A i, k \in DOMAIN chats : chats[i].chat_id = chats[k].chat_id => i = k

\* the support-team handler on lists that may hold a record without chat_id
SpecMalformed == InitMalformed /\ [][NextTimestamp]_vars

\* C22 (as claimed): a chat record that lacks a chatId is skipped: it appears
\* in neither openChatDetails nor delayedResponseDetails and is not counted in
\* totalOpenChats and chatsWithDelayedResponse; the other chats are aggregated
\* as if it were absent.
MalformedRecordSkipped ==
    pc = "done" =>
        LET wellFormed == SelectSeq(openChats, LAMBDA c : c.chat_id # Absent)
        IN  /\ \A j \in DOMAIN metrics.openChatDetails :
                   metrics.openChatDetails[j].chatId # Absent
            /\ \A j \in DOMAIN metrics.delayedResponseDetails :
                   metrics.delayedResponseDetails[j].chatId # Absent
            /\ metrics.totalOpenChats = Len(wellFormed)
            /\ metrics = processChatsToMetricsSupportTeam(wellFormed, now)

----------------------------------------------------------------------------
\* Exited chats in the type-specific filter

\* chats of every type whose org_phone is the target agent's in the WhatsApp
\* format or in the display format with a zero-width no-break space (U+FEFF)
\* in it, or a customer's, without chat_org_phones or, under the customer's
\* org_phone, with the agent's local number there; exited or not, closed or
\* not, created 200 hours or 200 days ago, last updated 10 hours or 100 days
\* ago
ExitedChats ==
    {[Chat(0, type, exited, closed, created, updated, NoMessage, 3, phones[1],
           <<>>, <<>>) EXCEPT !.chat_org_phones = phones[2]] :
        phones \in {<<targetAgent, <<>>>>,
                    <<Str("+91 85270") \o <<65279>> \o Str("14950"), <<>>>>,
                    <<customerPhone, <<>>>>,
                    <<customerPhone, <<customerPhone, Str("8527014950")>>>>},
        type \in {"user", "business", "group"}, exited \in BOOLEAN,
        closed \in {Absent, Now - 2 * Hour},
        created \in {Now - 200 * Hour, Now - 200 * Day},
        updated \in {Now - 10 * Hour, Now - 100 * Day}}

InitExited == InitListed("typed", ExitedChats, MaxChats)

\* the specific-agent handler on chats the agent has or has not exited
SpecExited == InitExited /\ [][NextTyped]_vars

\* C25 (as claimed): a business chat with isExited = true is never returned by
\* filterOpenChats and never appears in openChatDetails, whatever its closedAt,
\* creation time and last activity are.
ExitedBusinessExcluded ==
    pc = "done" =>
        \A i \in DOMAIN chats :
            (chats[i].chat_type = "business" /\ chats[i].is_exited) =>
                ~ClassifiedOpen(chats[i]) /\ ~InDetails(chats[i])

----------------------------------------------------------------------------
\* The customer flag of the support-team aggregator

\* the entries of delayedResponseDetails for the chat
DelayedEntryFlags(chat) ==
    {metrics.delayedResponseDetails[j].lastMessageFromCustomer :
        j \in DelayedEntriesOf(chat)}

\* C30 (as claimed): in the support-team variant the lastMessageFromCustomer
\* flag of every openChatDetails and delayedResponseDetails entry is true
\* exactly when the chat has a latest message that calculateChatUrgency
\* resolved as customer-sent; no entry is marked customer-sent while support
\* sent the last message.
CustomerFlagFollowsAttribution ==
    (pc = "done" /\ route = "timestamp") =>
        \A i \in DOMAIN openChats :
            LET c == openChats[i]
                customerSent ==
                    c.latest_message.exists /\ ~isMessageFromSupportTeam(c.latest_message, c)
            IN  /\ DetailOf(c).lastMessageFromCustomer = customerSent
                /\ \A flag \in DelayedEntryFlags(c) : flag = customerSent

----------------------------------------------------------------------------
\* Reply statistics (part_001). Times are in hours (the source's milliseconds
\* / 3600000).

MaxMessages == 3

\* no request to a chat-analytics handler under way
NoChatAnalytics ==
    /\ now = Now
    /\ chats = <<>>
    /\ openChats = <<>>
    /\ metrics = NoMetrics
    /\ upstream = <<>>
    /\ offset = 0
    /\ pageCount = 0
    /\ totalChatsChecked = 0

\* The host's time zone, here America/New_York in 2024. A time of this part
\* and of the messages route is an instant, in hours since Sunday 2024-10-27
\* 00:00 EDT (04:00 UTC), negative before it. The clocks go forward one hour,
\* from 02:00 EST to 03:00 EDT, at instant clocksGoForward (Sunday 2024-03-10
\* 07:00 UTC, 231 days less 3 hours before), so that this Sunday lasts 23
\* hours, and back one hour, from 02:00 EDT to 01:00 EST, at instant
\* clocksGoBack (Sunday 2024-11-03 06:00 UTC), so that this Sunday lasts 25
\* hours. Between the two changes an instant is also the hour on the wall, and
\* days last 24 hours as in a zone without clock changes.
clocksGoForward == 0 - (231 * 24 - 3)

clocksGoBack == 7 * 24 + 2

\* the local time of an instant: the hours on the wall, counted from 00:00 of
\* 2024-10-27
localTime(t) == IF t < clocksGoForward \/ t >= clocksGoBack THEN t - 1 ELSE t

\* the instant of a local time, as a Date resolves it: the hour from 02:00
\* that the wall skips is taken with the offset before the change (and shows
\* as 03:00), the hour from 01:00 that the wall shows twice is the earlier one
instantOf(wall) == IF wall < clocksGoForward \/ wall >= clocksGoBack THEN wall + 1 ELSE wall

\* date.setDate(date.getDate() + days)
setDate(t, days) == instantOf(localTime(t) + 24 * days)

\* date.setHours(h, 0, 0, 0) on a copy of the date
setHours(t, h) == instantOf((localTime(t) \div 24) * 24 + h)

\* date.getDay(): 0 for Sunday
getDay(t) == (localTime(t) \div 24) % 7

\* 24 * 60 * 60 * 1000
oneDay == 24

\* the body of the while loop of businessHoursDifference for one day: the
\* overlap of [start, end] with 9:00-17:00 of a weekday
businessSlice(day, start, end) ==
    LET isWeekday == getDay(day) >= 1 /\ getDay(day) <= 5
        bhStart == setHours(day, 9)
        bhEnd == setHours(day, 17)
        sliceStart == IF start > bhStart THEN start ELSE bhStart
        sliceEnd == IF end < bhEnd THEN end ELSE bhEnd
    IN  IF isWeekday /\ sliceEnd > sliceStart THEN sliceEnd - sliceStart ELSE 0

\* the while loop from a day on: while (day < end), day advancing by oneDay
RECURSIVE businessHoursFrom(_, _, _)
businessHoursFrom(day, start, end) ==
    IF day < end
    THEN businessSlice(day, start, end) + businessHoursFrom(day + oneDay, start, end)
    ELSE 0

\* businessHoursDifference(start, end): from the local midnight before start
businessHoursDifference(start, end) == businessHoursFrom(setHours(start, 0), start, end)

\* [...messages].sort((a, b) => a.timestamp - b.timestamp): stable, ascending
sortByTimestamp(list) ==
    LET insert(sorted, m) ==
            LET before == SelectSeq(sorted, LAMBDA x : x.timestamp <= m.timestamp)
                after == SelectSeq(sorted, LAMBDA x : x.timestamp > m.timestamp)
            IN  before \o <<m>> \o after
        F[i \in 0..Len(list)] == IF i = 0 THEN <<>> ELSE insert(F[i - 1], list[i])
    IN  F[Len(list)]

\* the for loop of computeAverageReplyDelay; lastCustomer is the position of
\* the message in sorted, 0 for null
pairReplies(sorted) ==
    LET step(acc, i) ==
            IF ~sorted[i].from_me
            THEN [acc EXCEPT !.lastCustomer = i]
            ELSE IF acc.lastCustomer # 0
                 THEN LET custTime == sorted[acc.lastCustomer].timestamp
                          agentTime == sorted[i].timestamp
                      IN  IF agentTime > custTime
                          THEN [lastCustomer |-> 0,
                                deltasAbs |-> Append(acc.deltasAbs, agentTime - custTime),
                                deltasBiz |-> Append(acc.deltasBiz,
                                    businessHoursDifference(custTime, agentTime))]
                          ELSE [acc EXCEPT !.lastCustomer = 0]
                 ELSE acc
        F[i \in 0..Len(sorted)] ==
            IF i = 0 THEN [lastCustomer |-> 0, deltasAbs |-> <<>>, deltasBiz |-> <<>>]
            ELSE step(F[i - 1], i)
    IN  [deltasAbs |-> F[Len(sorted)].deltasAbs, deltasBiz |-> F[Len(sorted)].deltasBiz]

\* avg(arr) as the fraction <<numerator, denominator>>: 0 for no delay
avg(arr) ==
    LET sum[i \in 0..Len(arr)] == IF i = 0 THEN 0 ELSE sum[i - 1] + arr[i]
    IN  IF Len(arr) = 0 THEN <<0, 1>> ELSE <<sum[Len(arr)], Len(arr)>>

\* computeAverageReplyDelay(messages), with the delays it has averaged
computeAverageReplyDelay(list) ==
    LET paired == pairReplies(sortByTimestamp(list))
    IN  [deltasAbs |-> paired.deltasAbs,
         deltasBiz |-> paired.deltasBiz,
         avgAbsoluteMs |-> avg(paired.deltasAbs),
         avgBusinessMs |-> avg(paired.deltasBiz)]

\* a call of computeAverageReplyDelay
ComputeReplyDelay ==
    /\ route = "reply"
    /\ pc = "called"
    /\ replyDelay' = computeAverageReplyDelay(messages)
    /\ pc' = "done"
    /\ UNCHANGED <<route, now, chats, openChats, metrics, messages>>
    /\ UNCHANGED <<fetchVars, messageVars>>

\* customer and agent messages of Monday 10:00, 12:00 and 18:00, of Tuesday
\* 10:00, of Friday 10:00 and, after the 25-hour Sunday, of Monday 12:00 EST
ReplyMessages ==
    [timestamp : {34, 36, 42, 58, 130, instantOf(8 * 24 + 12)}, from_me : BOOLEAN]

InitReply ==
    /\ route = "reply"
    /\ pc = "called"
    /\ NoChatAnalytics
    /\ startDate = 0
    /\ endDate = 0
    /\ idx = 0
    /\ calls = <<>>
    /\ baseCursor = NoCursor
    /\ windows = <<>>
    /\ results = <<>>
    /\ messages \in SeqsOf(ReplyMessages, MaxMessages)
    /\ replyDelay = NoDelay

NextReply == ComputeReplyDelay

\* computeAverageReplyDelay on every list of up to MaxMessages messages
SpecReply == InitReply /\ [][NextReply]_vars

\* the positions in the list of the agent messages later than message i
LaterAgentMessages(i) ==
    {j \in DOMAIN messages :
        messages[j].from_me /\ messages[j].timestamp > messages[i].timestamp}

\* the customer messages that are followed later by an agent message
AnsweredCustomerMessages ==
    {i \in DOMAIN messages : ~messages[i].from_me /\ LaterAgentMessages(i) # {}}

\* the time of the next agent message after message i
NextReplyTime(i) ==
    CHOOSE t \in {messages[j].timestamp : j \in LaterAgentMessages(i)} :
        \A j \in LaterAgentMessages(i) : t <= messages[j].timestamp

\* how many of the delays that were averaged are d
DelaysOf(d) == Cardinality({k \in DOMAIN replyDelay.deltasAbs : replyDelay.deltasAbs[k] = d})

\* C27 (as claimed): every customer message that is followed later by an agent
\* message contributes exactly one delay, the time of the next agent message
\* minus its own time, to the average, and nothing else contributes: the
\* delays averaged are those of the answered customer messages, one each.
EveryAnsweredCustomerContributes ==
    pc = "done" /\ route = "reply" =>
        /\ Len(replyDelay.deltasAbs) = Cardinality(AnsweredCustomerMessages)
        /\ \A i \in AnsweredCustomerMessages :
               DelaysOf(NextReplyTime(i) - messages[i].timestamp) =
                   Cardinality({k \in AnsweredCustomerMessages :
                       NextReplyTime(k) - messages[k].timestamp =
                           NextReplyTime(i) - messages[i].timestamp})

----------------------------------------------------------------------------
\* Messages route (src/app/api/messages/route.ts): the handler that fetches a
\* long range as sequential weekly chunks ("chunked", lines 5-192) and the
\* handler that fetches daily intervals with a pool of two workers ("pooled",
\* lines 197-323). One action per stretch of code between two awaits. A
\* caller is GET itself in the chunked handler and a worker in the pooled one.
\* A message is [chunk, page, n]: the n-th message of that page of that
\* interval. A cursor is [chunk, page]: the next_cursor of that page. Backoff
\* times are in milliseconds.

MaxChunks == 3

\* Math.ceil((endDate.getTime() - startDate.getTime()) / (1000 * 60 * 60 * 24))
totalDays == 0 - ((startDate - endDate) \div 24)

\* the for loop that builds the intervals: current advances by chunkDays
\* local days while (current < endDate), chunkEnd is cut at endDate
RECURSIVE intervalsFrom(_, _, _)
intervalsFrom(current, end, chunkDays) ==
    IF current < end
    THEN LET chunkEnd == setDate(current, chunkDays)
         IN  <<[sISO |-> current, eISO |-> IF chunkEnd > end THEN end ELSE chunkEnd]>>
                 \o intervalsFrom(setDate(current, chunkDays), end, chunkDays)
    ELSE <<>>

\* the intervals a handler fetches: weekly chunks, or the single range of at
\* most 7 days, in the chunked handler and daily intervals in the pooled one
intervalsOf(r, start, end) ==
    IF r = "chunked"
    THEN IF 0 - ((start - end) \div 24) <= 7
         THEN <<[sISO |-> start, eISO |-> end]>>
         ELSE intervalsFrom(start, end, 7)
    ELSE intervalsFrom(start, end, 1)

\* intervals.length; the single range of the chunked handler counts as one
intervalsLength(r, start, end) == Len(intervalsOf(r, start, end))

\* an interval index that is read but not advanced: intervals[idx]
keepIndex(i) == i

\* intervals[idx++] and the i++ of the for loop
takeIndex(i) == i + 1

\* a failed window fetch that no handler catches per chunk
propagatesAlways(r, days) == TRUE

\* whether a failed window fetch reaches the catch of GET: only the single
\* range fetch of the chunked handler is outside a per-chunk try
propagates(r, days) == r = "chunked" /\ days <= 7

\* a caller that has not yet called a window fetch
NoCall ==
    [status |-> "start", chunk |-> 0, page |-> 0, attempt |-> 0, error |-> 0,
     backoff |-> 0, cursor |-> NoCursor, offset |-> 0, collected |-> <<>>]

\* an interval nobody has taken
NoWindow == [status |-> "none", fetches |-> 0, worker |-> 0, messages |-> <<>>]

\* the first getMessages call of a window fetch of interval k: the chunked
\* handler spreads baseOptions, cursor included, into the request
firstRequest(k) ==
    [status |-> "requesting", chunk |-> k, page |-> 1, attempt |-> 1, error |-> 0,
     backoff |-> 0,
     cursor |-> IF route = "chunked" THEN baseCursor ELSE NoCursor,
     offset |-> 0, collected |-> <<>>]

\* the head of the loop over the intervals, run by caller w up to its next
\* await: while (idx < intervals.length) { intervals[idx++]; load(...) }
loopHead(cs, i, ws, w) ==
    IF i < intervalsLength(route, startDate, endDate)
    THEN [idx |-> takeIndex(i),
          calls |-> [cs EXCEPT ![w] = firstRequest(i + 1)],
          windows |-> [ws EXCEPT ![i + 1] =
                          [status |-> "fetching", fetches |-> @.fetches + 1,
                           worker |-> w, messages |-> <<>>]]]
    ELSE [idx |-> i,
          calls |-> [cs EXCEPT ![w] = [@ EXCEPT !.status = "finished"]],
          windows |-> ws]

\* every caller has left its loop
allFinished(cs) == \A w \in DOMAIN cs : cs[w].status = "finished"

\* GET up to its first await: the chunked handler enters its first window
\* fetch, Promise.all([worker(), worker()]) runs each worker to its first await
Launch ==
    LET h1 == loopHead(calls, idx, windows, 1)
        h2 == IF Len(calls) = 2 THEN loopHead(h1.calls, h1.idx, h1.windows, 2) ELSE h1
    IN  /\ route \in {"chunked", "pooled"}
        /\ pc = "start"
        /\ pc' = "running"
        /\ idx' = h2.idx
        /\ calls' = h2.calls
        /\ windows' = h2.windows
        /\ UNCHANGED <<route, now, chats, openChats, metrics, startDate, endDate, baseCursor,
                       results>>
        /\ UNCHANGED <<fetchVars, replyVars>>

\* the messages of a page of n messages
pageMessages(k, p, n) == [j \in 1..n |-> [chunk |-> k, page |-> p, n |-> j]]

\* getMessages of caller w resolves with a page of n messages, with a
\* next_cursor or without one, and the window fetch runs to its next await
PageArrives(w, n, next) ==
    LET c == calls[w]
        all == c.collected \o pageMessages(c.chunk, c.page, n)
        nextCursor == IF next THEN [chunk |-> c.chunk, page |-> c.page] ELSE NoCursor
        hasMore == ~(n < limit)
        newOffset == IF hasMore THEN c.offset + limit ELSE c.offset
        newBase == IF route = "chunked" /\ next THEN nextCursor ELSE baseCursor
        again == IF route = "chunked" THEN hasMore /\ c.page < MaxPages ELSE next
    IN  /\ pc = "running"
        /\ c.status = "requesting"
        /\ next => c.page < MaxPages
        /\ baseCursor' = newBase
        /\ IF again
           THEN /\ calls' = [calls EXCEPT ![w] =
                       [status |-> "requesting", chunk |-> c.chunk, page |-> c.page + 1,
                        attempt |-> 1, error |-> 0, backoff |-> 0,
                        cursor |-> IF route = "chunked" THEN newBase ELSE nextCursor,
                        offset |-> IF route = "chunked" THEN newOffset ELSE 0,
                        collected |-> all]]
                /\ windows' = windows
           ELSE /\ calls' = [calls EXCEPT ![w] =
                       [c EXCEPT !.status = "resolved", !.collected = all]]
                /\ windows' = [windows EXCEPT ![c.chunk] =
                       [@ EXCEPT !.status = "returned", !.messages = all]]
        /\ UNCHANGED <<route, now, pc, chats, openChats, metrics, startDate, endDate, idx,
                       results>>
        /\ UNCHANGED <<fetchVars, replyVars>>

\* getMessages of caller w fails with the given status code (or resolves with
\* an error field, which is thrown) and the catch of the retry loop runs
RequestFails(w, code) ==
    LET c == calls[w]
        failed == [c EXCEPT !.status = "rejected", !.error = code]
    IN  /\ pc = "running"
        /\ c.status = "requesting"
        /\ IF code = 429 /\ c.attempt < 3
           THEN /\ calls' = [calls EXCEPT ![w] =
                       [c EXCEPT !.status = "backoff", !.error = code,
                                 !.backoff = 1000 * 2 ^ (c.attempt - 1)]]
                /\ windows' = windows
           ELSE IF route = "chunked" /\ c.attempt # 3
                THEN /\ calls' = [calls EXCEPT ![w] =
                            [c EXCEPT !.attempt = c.attempt + 1, !.error = code,
                                      !.backoff = 0]]
                     /\ windows' = windows
                ELSE /\ calls' = [calls EXCEPT ![w] = failed]
                     /\ windows' = [windows EXCEPT ![c.chunk] =
                            [@ EXCEPT !.status = "failed"]]
        /\ UNCHANGED <<route, now, pc, chats, openChats, metrics, startDate, endDate, idx,
                       baseCursor, results>>
        /\ UNCHANGED <<fetchVars, replyVars>>

\* the backoff timer of caller w fires: continue with the next attempt
BackoffEnds(w) ==
    /\ pc = "running"
    /\ calls[w].status = "backoff"
    /\ calls' = [calls EXCEPT ![w] =
           [@ EXCEPT !.status = "requesting", !.attempt = @ + 1]]
    /\ UNCHANGED <<route, now, pc, chats, openChats, metrics, startDate, endDate, idx,
                   baseCursor, windows, results>>
    /\ UNCHANGED <<fetchVars, replyVars>>

\* the caller of a settled window fetch resumes: the messages are pushed to
\* the results, or the error is caught, and the loop over the intervals goes on
Resume(w) ==
    LET c == calls[w]
        pushed == IF c.status = "resolved" THEN results \o c.collected ELSE results
        last == ~(c.chunk < intervalsLength(route, startDate, endDate))
        h == loopHead(calls, idx, windows, w)
    IN  /\ pc = "running"
        /\ c.status \in {"resolved", "rejected"}
        /\ results' = pushed
        /\ IF c.status = "rejected" /\ propagates(route, totalDays)
           THEN /\ pc' = "failed"
                /\ calls' = [calls EXCEPT ![w] = [c EXCEPT !.status = "finished"]]
                /\ UNCHANGED <<idx, windows>>
           ELSE IF route = "chunked" /\ c.status = "resolved" /\ totalDays > 7 /\ ~last
                THEN /\ calls' = [calls EXCEPT ![w] = [c EXCEPT !.status = "pause"]]
                     /\ UNCHANGED <<pc, idx, windows>>
                ELSE /\ idx' = h.idx
                     /\ calls' = h.calls
                     /\ windows' = h.windows
                     /\ pc' = IF route = "chunked" /\ allFinished(h.calls)
                              THEN "done" ELSE pc
        /\ UNCHANGED <<route, now, chats, openChats, metrics, startDate, endDate, baseCursor>>
        /\ UNCHANGED <<fetchVars, replyVars>>

\* the delay of 500 ms between two chunks of the chunked handler is over
PauseEnds(w) ==
    LET h == loopHead(calls, idx, windows, w)
    IN  /\ pc = "running"
        /\ calls[w].status = "pause"
        /\ idx' = h.idx
        /\ calls' = h.calls
        /\ windows' = h.windows
        /\ pc' = IF allFinished(h.calls) THEN "done" ELSE pc
        /\ UNCHANGED <<route, now, chats, openChats, metrics, startDate, endDate, baseCursor,
                       results>>
        /\ UNCHANGED <<fetchVars, replyVars>>

\* Promise.all of the two workers resolves and the pooled handler responds
RespondPooled ==
    /\ route = "pooled"
    /\ pc = "running"
    /\ allFinished(calls)
    /\ pc' = "done"
    /\ UNCHANGED <<route, now, chats, openChats, metrics, startDate, endDate, idx, calls,
                   baseCursor, windows, results>>
    /\ UNCHANGED <<fetchVars, replyVars>>

\* a request to a messages handler for a range of the given days
InitMessagesRoute(r, start, days) ==
    /\ route = r
    /\ pc = "start"
    /\ NoChatAnalytics
    /\ startDate = start
    /\ endDate = start + 24 * days
    /\ idx = 0
    /\ calls = [w \in 1..(IF r = "pooled" THEN 2 ELSE 1) |-> NoCall]
    /\ baseCursor = NoCursor
    /\ windows = [k \in 1..intervalsLength(r, startDate, endDate) |-> NoWindow]
    /\ results = <<>>
    /\ messages = <<>>
    /\ replyDelay = NoDelay

\* ranges from 2024-07-19T04:00Z (0 - 100 * 24), in the summer, where every
\* day lasts 24 hours: of 4, 11, 18, ... days for the chunked handler (one
\* range, two chunks, three chunks, ...) and of 0 to MaxChunks days for the
\* pooled one; ranges from 2024-03-09T12:00Z, 19 hours before the clocks go
\* forward, across the 23-hour Sunday, whose last interval is the one hour
\* left: of 14 days for the chunked handler (three chunks) and of 1 to
\* MaxChunks - 1 days for the pooled one
InitMessages ==
    \/ \E k \in 1..MaxChunks : InitMessagesRoute("chunked", 0 - 100 * 24, 7 * k - 3)
    \/ \E days \in 0..MaxChunks : InitMessagesRoute("pooled", 0 - 100 * 24, days)
    \/ InitMessagesRoute("chunked", clocksGoForward - 19, 14)
    \/ \E days \in 1..(MaxChunks - 1) : InitMessagesRoute("pooled", clocksGoForward - 19, days)

\* the sizes of the pages the upstream answers with: a short page or a full
\* one for the chunked handler, which ends its loop on a short page; the
\* pooled handler never looks at the size of a page
PageSizes == IF route = "chunked" THEN {limit - 1, limit} ELSE {limit}

NextMessages ==
    \/ Launch
    \/ \E w \in DOMAIN calls, n \in PageSizes, next \in BOOLEAN :
           PageArrives(w, n, next)
    \/ \E w \in DOMAIN calls, code \in {429, 500} : RequestFails(w, code)
    \/ \E w \in DOMAIN calls : BackoffEnds(w)
    \/ \E w \in DOMAIN calls : Resume(w)
    \/ \E w \in DOMAIN calls : PauseEnds(w)
    \/ RespondPooled

\* the two messages handlers under every outcome of every getMessages call
SpecMessages == InitMessages /\ [][NextMessages]_vars

\* C23 (as claimed): a page request is retried only after a rate-limit (429)
\* failure, each retry is preceded by a backoff of 1000 * 2^(attempt-1) ms of
\* the failed attempt, at most 3 attempts are made per page, and a failure
\* that is not a rate limit is propagated without a further attempt: every
\* attempt after the first follows a 429 and its backoff.
RetryOnlyAfterRateLimit ==
    \A w \in DOMAIN calls :
        LET c == calls[w]
        IN  /\ c.attempt <= 3
            /\ c.status = "backoff" =>
                   /\ c.error = 429
                   /\ c.attempt < 3
                   /\ c.backoff = 1000 * 2 ^ (c.attempt - 1)
            /\ (c.status = "requesting" /\ c.attempt > 1) =>
                   /\ c.error = 429
                   /\ c.backoff = 1000 * 2 ^ (c.attempt - 2)
            /\ c.status = "rejected" => (c.error # 429 \/ c.attempt = 3)

\* the intervals whose window fetch is in flight
InFlight == {k \in DOMAIN windows : windows[k].status = "fetching"}

\* the callers that are inside a window fetch
Fetching == {w \in DOMAIN calls : calls[w].status \in {"requesting", "backoff"}}

\* C24: in the pooled handler, under every interleaving of the two workers,
\* each interval is taken by one worker and fetched once (never twice, and
\* once when the response is produced), at most two window fetches are in
\* flight at any time, and the response is produced only after every
\* interval has either returned or failed.
PoolFetchesEachIntervalOnce ==
    route = "pooled" =>
        /\ \A k \in DOMAIN windows :
               /\ windows[k].fetches <= 1
               /\ windows[k].fetches = 1 <=> windows[k].worker \in DOMAIN calls
               /\ windows[k].fetches = 1 <=> k <= idx
               /\ windows[k].status = "fetching" <=>
                      \E w \in Fetching : calls[w].chunk = k
        /\ \A v, w \in Fetching : calls[v].chunk = calls[w].chunk => v = w
        /\ Cardinality(InFlight) <= 2
        /\ pc = "done" =>
               \A k \in DOMAIN windows :
                   /\ windows[k].status \in {"returned", "failed"}
                   /\ windows[k].fetches = 1

\* a response of the pooled handler to a range of three days or more, whose
\* third interval was taken by the second worker while the first worker was
\* still fetching the first interval
PoolWitness ==
    /\ route = "pooled"
    /\ pc = "done"
    /\ Len(windows) >= 3
    /\ windows[1].worker = 1
    /\ windows[2].worker = 2
    /\ windows[3].worker = 2
    /\ windows[1].status = "returned"
    /\ Len(windows[1].messages) > limit
    /\ windows[2].status = "failed"
    /\ windows[3].status = "returned"

\* the messages of interval k in the response
ResultsOf(k) == SelectSeq(results, LAMBDA m : m.chunk = k)

\* C26: when the range is split into several chunks and the fetch of one
\* chunk fails, the remaining chunks are still fetched and the handler
\* returns a success response; its message list holds the messages of every
\* chunk that succeeded, whole and in one piece (in the order of the chunks
\* in the chunked handler), and none of a chunk that failed.
ChunkFailureIsolated ==
    Len(windows) > 1 =>
        /\ pc # "failed"
        /\ pc = "done" =>
               /\ \A k \in DOMAIN windows :
                      /\ windows[k].status \in {"returned", "failed"}
                      /\ windows[k].status = "returned" =>
                             ResultsOf(k) = windows[k].messages
                      /\ windows[k].status = "failed" => ResultsOf(k) = <<>>
               /\ \A i, j \in DOMAIN results :
                      (i < j /\ results[i].chunk = results[j].chunk) =>
                          \A m \in i..j : results[m].chunk = results[i].chunk
               /\ route = "chunked" =>
                      \A i, j \in DOMAIN results :
                          i < j => results[i].chunk <= results[j].chunk

\* a response to a range of several chunks of which the first failed and
\* exactly one later chunk succeeded, with messages
ChunkFailureWitness ==
    /\ pc = "done"
    /\ Len(windows) > 1
    /\ windows[1].status = "failed"
    /\ \E k \in DOMAIN windows :
           /\ windows[k].status = "returned"
           /\ windows[k].messages # <<>>
           /\ results = windows[k].messages

\* C29 (as claimed): in the chunked handler the first page request of every
\* chunk carries no pagination cursor, and a request never carries a cursor
\* obtained while fetching a different chunk.
NoCursorAcrossChunks ==
    route = "chunked" =>
        \A w \in Fetching :
            /\ calls[w].page = 1 => calls[w].cursor = NoCursor
            /\ calls[w].cursor # NoCursor => calls[w].cursor.chunk = calls[w].chunk

============================================================================
